---- MODULE Spec2Model ----
(***************************************************************************)
(* Air-quality monitoring scripts (src/python): the CSV analysis of        *)
(* analysis.py, the loader/statistics/visualization pipeline of            *)
(* analyze.py, the chart entry point visualization.py and the chunked      *)
(* (streaming) correlation of correlation_large.py.                        *)
(*                                                                         *)
(* A CSV file is a set of column names and a sequence of rows; a row maps  *)
(* each column to a raw cell.  A raw cell is a natural number (a text that *)
(* parses as that number or time stamp), NaN (an empty cell) or Bad (a     *)
(* text that does not parse).  Time stamps are whole hours counted from a  *)
(* Monday 00:00; a date (YYYY-MM-DD) is the time stamp of its midnight.    *)
(* Means are exact rationals <<numerator, denominator>> in lowest terms.   *)
(***************************************************************************)
EXTENDS Integers, Sequences, FiniteSets, TLC

VARIABLES file, start_date, end_date, pc, entry, result, df, stats,
          adresult, chunk, chunk_size, pos, acc, corr, stdout, exit_code, crashed,
          slots, fetch, plots, aqi, io, clock, written, validation, http

vars == <<file, start_date, end_date, pc, entry, result, df, stats,
          adresult, chunk, chunk_size, pos, acc, corr, stdout, exit_code, crashed,
          slots, fetch, plots, aqi, io,
                   clock, written, validation, http>>

\* Longest CSV file (rows) the model enumerates.
MaxRows == 2

-----------------------------------------------------------------------------
(* Cells, columns, rows *)

\* pandas NaN: a missing numeric value (an empty cell, or a coerced text).
NaN == -1
\* pandas NaT: a missing time stamp.
NaT == -1
\* A cell whose text parses neither as a number nor as a time stamp.
Bad == -2
\* Python None: an argument that was not supplied.
None == -1
\* No column resolved for a field (pm25_col = None in analysis.py).
NoCol == "<none>"

Metrics == {"pm25", "pm10", "temperature", "humidity"}

LegacyOf(m) ==
    CASE m = "pm25" -> "field3"
      [] m = "pm10" -> "field4"
      [] m = "temperature" -> "field2"
      [] m = "humidity" -> "field1"

LegacyCols == {LegacyOf(m) : m \in Metrics}

HoursPerDay == 24
DaysPerWeek == 7

\* Series.dt.hour and Series.dt.dayofweek (Monday = 0) of a parsed time stamp.
HourOf(ts) == ts % HoursPerDay
DayOfWeek(ts) == (ts \div HoursPerDay) % DaysPerWeek

\* pd.to_datetime(..., errors='coerce'): whatever does not parse becomes NaT.
ToDatetimeCoerce(cell) == IF cell < 0 THEN NaT ELSE cell

\* pd.to_numeric(..., errors='coerce'): whatever does not parse becomes NaN.
ToNumericCoerce(cell) == IF cell < 0 THEN NaN ELSE cell

\* df['created_at'] = pd.to_datetime(df['created_at'], errors='coerce')
ParseTimes(rows) ==
    [i \in DOMAIN rows |->
        [rows[i] EXCEPT !["created_at"] = ToDatetimeCoerce(@)]]

\* df[new] = pd.to_numeric(df[old], errors='coerce'); new may or may not
\* exist yet.
SetNumeric(rows, new, old) ==
    [i \in DOMAIN rows |->
        [c \in (DOMAIN rows[i]) \cup {new} |->
            IF c = new THEN ToNumericCoerce(rows[i][old]) ELSE rows[i][c]]]

\* df[new] = np.nan on every row.
SetColNaN(rows, new) ==
    [i \in DOMAIN rows |->
        [c \in (DOMAIN rows[i]) \cup {new} |->
            IF c = new THEN NaN ELSE rows[i][c]]]

\* The column with 0 in the place of each missing value.
ValidValuesZeroFilled(rows, col) ==
    [i \in DOMAIN rows |-> IF rows[i][col] = NaN THEN 0 ELSE rows[i][col]]

\* df[col].dropna() as a sequence of values.
ValidValues(rows, col) ==
    LET all == [i \in DOMAIN rows |-> rows[i][col]]
    IN  SelectSeq(all, LAMBDA v : v # NaN)

\* df.dropna(subset=cols)
DropNa(rows, cols) ==
    SelectSeq(rows, LAMBDA r : \A c \in cols : r[c] # NaN)

\* A start filter that keeps every row.
FilterFromKeepsAll(rows, start) == rows

\* df[df['created_at'] >= start]; a comparison with NaT is False.
FilterFrom(rows, start) ==
    SelectSeq(rows, LAMBDA r : r["created_at"] # NaT /\ r["created_at"] >= start)

\* An end filter that keeps every row.
FilterToKeepsAll(rows, end) == rows

\* df[df['created_at'] <= end]
FilterTo(rows, end) ==
    SelectSeq(rows, LAMBDA r : r["created_at"] # NaT /\ r["created_at"] <= end)

-----------------------------------------------------------------------------
(* Arithmetic on exact values *)

RECURSIVE GCD(_, _)
GCD(a, b) == IF b = 0 THEN a ELSE GCD(b, a % b)

Abs(x) == IF x < 0 THEN -x ELSE x

\* The rational n/d (d > 0) in lowest terms.
Rat(n, d) ==
    LET g == GCD(Abs(n), d)
    IN  IF g = 0 THEN <<0, 1>> ELSE <<n \div g, d \div g>>

Zero == <<0, 1>>

\* a <= b for rationals with positive denominators.
RatLeq(a, b) == a[1] * b[2] <= b[1] * a[2]

RECURSIVE SumSeq(_)
SumSeq(s) == IF s = <<>> THEN 0 ELSE Head(s) + SumSeq(Tail(s))

\* Series.mean() of a non-empty sequence of values.
Mean(s) == Rat(SumSeq(s), Len(s))

\* Series.max() and Series.min() of a non-empty sequence of values.
MaxOf(s) == CHOOSE v \in {s[i] : i \in DOMAIN s} : \A j \in DOMAIN s : s[j] <= v
MinOf(s) == CHOOSE v \in {s[i] : i \in DOMAIN s} : \A j \in DOMAIN s : s[j] >= v

-----------------------------------------------------------------------------
(* analysis.py *)

\* The elements of a finite set of integers, ascending (the order groupby
\* gives its keys).
RECURSIVE Ascending(_)
Ascending(S) ==
    IF S = {} THEN <<>>
    ELSE LET m == CHOOSE x \in S : \A y \in S : x <= y
         IN  <<m>> \o Ascending(S \ {m})

\* A cell of the unstacked frame that no row falls in.
CellNaN == <<0, 0>>

NoError == ""

\* The result dictionary as analyze_air_quality_data initialises it.  extras
\* is the set of keys that the extended analysis has added.
DefaultResult ==
    [average_pm25 |-> Zero, average_pm10 |-> Zero,
     average_temperature |-> Zero, average_humidity |-> Zero,
     max_pm25 |-> 0, max_pm10 |-> 0, min_pm25 |-> 0, min_pm10 |-> 0,
     record_count |-> 0,
     date_range |-> [start |-> None, end |-> None],
     error |-> NoError,
     correlations |-> [absent |-> TRUE],
     hourly_patterns |-> [absent |-> TRUE],
     data_quality |-> [absent |-> TRUE],
     extras |-> {}]

\* The resolution without the fallback to the legacy code.
ResolveColumnSemanticOnly(cols, semantic, legacy) ==
    IF semantic \in cols THEN semantic ELSE NoCol

\* 'pm25' if has_pm25 else ('field3' if has_field3 else None)
ResolveColumn(cols, semantic, legacy) ==
    IF semantic \in cols THEN semantic
    ELSE IF legacy \in cols THEN legacy ELSE NoCol

\* "if not pm25_col or not pm10_col": the required-columns check.
RequiredMissing(pm25_col, pm10_col) == pm25_col = NoCol \/ pm10_col = NoCol

\* The result with an error message set, everything else as it stands.
WithError(r, msg) == [r EXCEPT !.error = msg]

\* Lines 116-151: one block per resolved column, over its non-missing values.
StatsBlock(r, rows, cols) ==
    LET num(col) == ValidValues(rows, col)
        v25 == IF cols.pm25 = NoCol THEN <<>> ELSE num(cols.pm25)
        v10 == IF cols.pm10 = NoCol THEN <<>> ELSE num(cols.pm10)
        vt  == IF cols.temperature = NoCol THEN <<>> ELSE num(cols.temperature)
        vh  == IF cols.humidity = NoCol THEN <<>> ELSE num(cols.humidity)
        r1 == IF Len(v25) > 0
              THEN [r EXCEPT !.average_pm25 = Mean(v25),
                             !.max_pm25 = MaxOf(v25), !.min_pm25 = MinOf(v25)]
              ELSE r
        r2 == IF Len(v10) > 0
              THEN [r1 EXCEPT !.average_pm10 = Mean(v10),
                              !.max_pm10 = MaxOf(v10), !.min_pm10 = MinOf(v10)]
              ELSE r1
        r3 == IF Len(vt) > 0
              THEN [r2 EXCEPT !.average_temperature = Mean(vt)] ELSE r2
        r4 == IF Len(vh) > 0
              THEN [r3 EXCEPT !.average_humidity = Mean(vh)] ELSE r3
    IN  r4

\* df['created_at'].min() / .max(): NaT is skipped; NaT when nothing is left.
TsValues(rows) == {rows[i]["created_at"] : i \in DOMAIN rows} \ {NaT}
TsMin(rows) ==
    IF TsValues(rows) = {} THEN NaT
    ELSE CHOOSE t \in TsValues(rows) : \A u \in TsValues(rows) : t <= u
TsMax(rows) ==
    IF TsValues(rows) = {} THEN NaT
    ELSE CHOOSE t \in TsValues(rows) : \A u \in TsValues(rows) : t >= u

-----------------------------------------------------------------------------
(* Pearson coefficients *)

\* floor(sqrt(n)) for lo <= floor(sqrt(n)) <= hi.
RECURSIVE ISqrtIn(_, _, _)
ISqrtIn(n, lo, hi) ==
    IF lo >= hi THEN lo
    ELSE LET mid == (lo + hi + 1) \div 2
         IN  IF mid * mid <= n THEN ISqrtIn(n, mid, hi)
             ELSE ISqrtIn(n, lo, mid - 1)

\* A coefficient: nan, or num / sqrt(den) with den > 0, kept exactly as its
\* sign and the rational num^2 / den.
CoefNaN == [nan |-> TRUE, sign |-> 0, sq |-> Zero]
CoefZero == [nan |-> FALSE, sign |-> 0, sq |-> Zero]
Coef(num, den) ==
    [nan |-> FALSE,
     sign |-> IF num > 0 THEN 1 ELSE IF num < 0 THEN -1 ELSE 0,
     sq |-> Rat(num * num, den)]

\* round(float(v), 3), in thousandths; nan stays nan.
Round3(c) ==
    IF c.nan THEN [nan |-> TRUE, milli |-> 0]
    ELSE LET twice == ISqrtIn((4000000 * c.sq[1]) \div c.sq[2], 0, 2000)
         IN  [nan |-> FALSE, milli |-> c.sign * ((twice + 1) \div 2)]

\* The sums of the closed-form Pearson formula over a sequence of rows.
RECURSIVE SumProd(_, _, _)
SumProd(rows, x, y) ==
    IF rows = <<>> THEN 0
    ELSE Head(rows)[x] * Head(rows)[y] + SumProd(Tail(rows), x, y)

Sums(rows, x, y) ==
    [xy |-> SumProd(rows, x, y),
     x |-> SumSeq([i \in DOMAIN rows |-> rows[i][x]]),
     y |-> SumSeq([i \in DOMAIN rows |-> rows[i][y]]),
     xx |-> SumProd(rows, x, x),
     yy |-> SumProd(rows, y, y),
     n |-> Len(rows)]

\* Pearson over the rows in which no column is missing.
PandasCorrListwise(rows, x, y) ==
    LET s == Sums(SelectSeq(rows, LAMBDA r : \A c \in DOMAIN r : r[c] # NaN), x, y)
        num == s.n * s.xy - s.x * s.y
        den == (s.n * s.xx - s.x * s.x) * (s.n * s.yy - s.y * s.y)
    IN  IF den = 0 THEN CoefNaN ELSE Coef(num, den)

\* DataFrame.corr() of two columns: Pearson over the rows in which both
\* values are present; nan when a variance is zero or no row is left.
PandasCorr(rows, x, y) ==
    LET s == Sums(DropNa(rows, {x, y}), x, y)
        num == s.n * s.xy - s.x * s.y
        den == (s.n * s.xx - s.x * s.x) * (s.n * s.yy - s.y * s.y)
    IN  IF den = 0 THEN CoefNaN ELSE Coef(num, den)

\* analysis.py calculate_correlations: the five pairs, rounded to 3 places.
calculate_correlations(rows, pm25_col, pm10_col, temp_col, humidity_col) ==
    [pm25_temp |-> Round3(PandasCorr(rows, pm25_col, temp_col)),
     pm25_humidity |-> Round3(PandasCorr(rows, pm25_col, humidity_col)),
     pm10_temp |-> Round3(PandasCorr(rows, pm10_col, temp_col)),
     pm10_humidity |-> Round3(PandasCorr(rows, pm10_col, humidity_col)),
     pm25_pm10 |-> Round3(PandasCorr(rows, pm25_col, pm10_col))]

\* The value standing for "the key is not in the dictionary".
Absent == [absent |-> TRUE]

-----------------------------------------------------------------------------
(* analysis.py analyze_air_quality_data *)

\* Lines 106-114: every resolved column is coerced to numeric in place.
CoerceResolved(rows, cols) ==
    LET used == {cols[m] : m \in Metrics} \ {NoCol}
    IN  [i \in DOMAIN rows |->
            [c \in DOMAIN rows[i] |->
                IF c \in used THEN ToNumericCoerce(rows[i][c]) ELSE rows[i][c]]]

\* The mean of column col over the rows of the group, NaN when the group has
\* no value in that column.
GroupMean(group, col) ==
    IF ValidValues(group, col) = <<>> THEN CellNaN ELSE Mean(ValidValues(group, col))

\* The hourly patterns with one entry for each of the 24 hours.
calculate_hourly_patterns_reindexed(rows, pm25_col, pm10_col) ==
    LET hours == [k \in 1..HoursPerDay |-> k - 1]
        group(h) == SelectSeq(rows, LAMBDA r : /\ r["created_at"] # NaT
                                               /\ HourOf(r["created_at"]) = h)
    IN  [hours |-> hours,
         pm25 |-> [k \in DOMAIN hours |-> GroupMean(group(hours[k]), pm25_col)],
         pm10 |-> [k \in DOMAIN hours |-> GroupMean(group(hours[k]), pm10_col)]]

\* calculate_hourly_patterns: df.groupby('hour')[[pm25_col, pm10_col]].mean();
\* the keys are the hours that occur, ascending, and a row without a time
\* stamp has no hour and belongs to no group.
calculate_hourly_patterns(rows, pm25_col, pm10_col) ==
    LET hours == Ascending({HourOf(rows[i]["created_at"]) :
                               i \in {j \in DOMAIN rows : rows[j]["created_at"] # NaT}})
        group(h) == SelectSeq(rows, LAMBDA r : /\ r["created_at"] # NaT
                                               /\ HourOf(r["created_at"]) = h)
    IN  [hours |-> hours,
         pm25 |-> [k \in DOMAIN hours |-> GroupMean(group(hours[k]), pm25_col)],
         pm10 |-> [k \in DOMAIN hours |-> GroupMean(group(hours[k]), pm10_col)]]

\* round(float(num / den * 100), 2) in hundredths of a percent, for den > 0;
\* a tie goes to the even neighbour.
RoundPercent(num, den) ==
    LET whole == (num * 10000) \div den
        rest == (num * 10000) % den
    IN  IF 2 * rest > den \/ (2 * rest = den /\ whole % 2 = 1) THEN whole + 1
        ELSE whole

\* len(df[abs(df[col] - mean) > 3 * std]): mean and std (ddof = 1) over the
\* non-missing values of the column; a comparison with nan is False, so a
\* missing value and a column with fewer than two values count nothing.
\* |v - t/n| > 3 * sqrt((n*ss - t*t) / (n*(n-1))), squared and cleared of
\* its denominators.
OutlierCount(rows, col) ==
    LET v == ValidValues(rows, col)
        n == Len(v)
        t == SumSeq(v)
        ss == SumSeq([i \in DOMAIN v |-> v[i] * v[i]])
    IN  Cardinality({i \in DOMAIN v :
            (n * v[i] - t) * (n * v[i] - t) * (n - 1) > 9 * n * (n * ss - t * t)})

\* assess_data_quality: completeness and outliers in hundredths of a percent.
assess_data_quality(rows, pm25_col, pm10_col, temp_col, humidity_col) ==
    LET total_records == Len(rows)
        notna(col) == Len(ValidValues(rows, col))
    IN  [completeness |->
            [pm25 |-> RoundPercent(notna(pm25_col), total_records),
             pm10 |-> RoundPercent(notna(pm10_col), total_records),
             temperature |-> RoundPercent(notna(temp_col), total_records),
             humidity |-> RoundPercent(notna(humidity_col), total_records)],
         outliers |->
            [pm25 |-> RoundPercent(OutlierCount(rows, pm25_col), total_records),
             pm10 |-> RoundPercent(OutlierCount(rows, pm10_col), total_records)],
         record_count |-> total_records]

\* The images of the basic plots and of the extended plots.
BasicImages == {"time_series.png", "pm25_trend.png"}
ExtendedImages ==
    {"scatter_temperature_pm25.png", "scatter_humidity_pm25.png",
     "scatter_temperature_pm10.png", "scatter_humidity_pm10.png",
     "heatmap.png", "histograms.png", "correlation_heatmap.png"}

\* The basic plots with a failure reaching the outer except of the analysis.
BasicPlotsUnguarded(r, plots_fail) ==
    IF plots_fail THEN WithError(r, "Error analyzing data") ELSE r

\* Lines 160-165: create_time_series_plot and create_trend_analysis catch
\* what they raise (lines 310-313, 340-343) and the try around them catches
\* the rest; the result is not touched.
BasicPlots(r, plots_fail) == r

\* Lines 183-190: the four extended plots; what they raise is printed.
ExtendedPlots(r, plots_fail) == r

\* The extended block without the try around the extended plots: a plot that
\* raises ends the block before the version marker.
ExtendedBlockPlotsUnguarded(r, rows, cols, plots_fail) ==
    LET r1 == [r EXCEPT !.extras = @ \cup {"hourly_patterns"},
                        !.hourly_patterns =
                            calculate_hourly_patterns(rows, cols.pm25, cols.pm10)]
    IN  IF cols.temperature = NoCol \/ cols.humidity = NoCol THEN r1
        ELSE
        LET r2 == [r1 EXCEPT !.extras = @ \cup {"correlations"},
                             !.correlations =
                                 calculate_correlations(rows, cols.pm25, cols.pm10,
                                                        cols.temperature, cols.humidity)]
        IN  IF \E i \in DOMAIN rows : rows[i]["created_at"] = NaT THEN r2
            ELSE
            LET r3 == [r2 EXCEPT !.extras = @ \cup {"daily_patterns", "data_quality"},
                                 !.data_quality =
                                     assess_data_quality(rows, cols.pm25, cols.pm10,
                                                         cols.temperature, cols.humidity)]
            IN  IF plots_fail THEN r3
                ELSE [r3 EXCEPT !.extras = @ \cup {"analysis_version"}]

\* The extended block with the KeyError of calculate_correlations reaching
\* the outer except, which sets the error.
ExtendedBlockUncaught(r, rows, cols, plots_fail) ==
    LET r1 == [r EXCEPT !.extras = @ \cup {"hourly_patterns"},
                        !.hourly_patterns =
                            calculate_hourly_patterns(rows, cols.pm25, cols.pm10)]
    IN  IF cols.temperature = NoCol \/ cols.humidity = NoCol
        THEN WithError(r1, "Error analyzing data")
        ELSE
        LET r2 == [r1 EXCEPT !.extras = @ \cup {"correlations"},
                             !.correlations =
                                 calculate_correlations(rows, cols.pm25, cols.pm10,
                                                        cols.temperature, cols.humidity)]
        IN  IF \E i \in DOMAIN rows : rows[i]["created_at"] = NaT THEN r2
            ELSE
            LET r3 == [r2 EXCEPT !.extras = @ \cup {"daily_patterns", "data_quality"},
                                 !.data_quality =
                                     assess_data_quality(rows, cols.pm25, cols.pm10,
                                                         cols.temperature, cols.humidity)]
                r4 == ExtendedPlots(r3, plots_fail)
            IN  [r4 EXCEPT !.extras = @ \cup {"analysis_version"}]

\* Lines 168-195: each step adds its key; the first step that raises ends the
\* block (the inner except only prints), leaving the keys added so far.
\*   calculate_correlations raises KeyError when temp_col or humidity_col is None;
\*   calculate_daily_patterns raises TypeError when a row has no time stamp
\*   (the day-of-week column is then float, and indexes the list of names).
ExtendedBlock(r, rows, cols, plots_fail) ==
    LET r1 == [r EXCEPT !.extras = @ \cup {"hourly_patterns"},
                        !.hourly_patterns =
                            calculate_hourly_patterns(rows, cols.pm25, cols.pm10)]
    IN  IF cols.temperature = NoCol \/ cols.humidity = NoCol THEN r1
        ELSE
        LET r2 == [r1 EXCEPT !.extras = @ \cup {"correlations"},
                             !.correlations =
                                 calculate_correlations(rows, cols.pm25, cols.pm10,
                                                        cols.temperature, cols.humidity)]
        IN  IF \E i \in DOMAIN rows : rows[i]["created_at"] = NaT THEN r2
            ELSE
            LET r3 == [r2 EXCEPT !.extras = @ \cup {"daily_patterns", "data_quality"},
                                 !.data_quality =
                                     assess_data_quality(rows, cols.pm25, cols.pm10,
                                                         cols.temperature, cols.humidity)]
                r4 == ExtendedPlots(r3, plots_fail)
            IN  [r4 EXCEPT !.extras = @ \cup {"analysis_version"}]

\* The result, the working set (df) and the images written with which the
\* function ends; basic_fail and extended_fail say whether the drawing or the
\* file write of the basic and of the extended plots fails.
analyze_with_plots(f, sd, ed, extended, basic_fail, extended_fail) ==
    LET r0 == DefaultResult
        ret(r, rows) == [result |-> r, df |-> rows, plots |-> {}]
    IN
    IF f.kind = "missing" THEN ret(WithError(r0, "File not found"), <<>>)
    ELSE IF f.kind = "unreadable"
         THEN ret(WithError(r0, "Error analyzing data"), <<>>)
    ELSE IF Len(f.rows) = 0
         THEN ret(WithError(r0, "No data found in CSV file"), <<>>)
    ELSE IF "created_at" \notin f.cols
         THEN ret(WithError(r0, "Error analyzing data"), f.rows)
    ELSE
    LET parsed == ParseTimes(f.rows)
        df1 == IF sd # None THEN FilterFrom(parsed, sd) ELSE parsed
        df2 == IF ed # None THEN FilterTo(df1, ed) ELSE df1
    IN
    IF Len(df2) = 0
    THEN ret(WithError(r0, "No data found for the specified date range"), df2)
    ELSE
    LET cols == [m \in Metrics |-> ResolveColumn(f.cols, m, LegacyOf(m))]
    IN
    IF RequiredMissing(cols.pm25, cols.pm10)
    THEN ret(WithError(r0, "Could not find PM2.5 or PM10 columns in the data"), df2)
    ELSE
    LET df3 == CoerceResolved(df2, cols)
        r1 == StatsBlock(r0, df3, cols)
        r2 == [r1 EXCEPT !.record_count = Len(df3)]
    IN
    \* NaT.strftime raises ValueError, caught by the outer except
    IF TsMin(df3) = NaT THEN ret(WithError(r2, "Error analyzing data"), df3)
    ELSE
    LET r3 == [r2 EXCEPT !.date_range = [start |-> TsMin(df3), end |-> TsMax(df3)]]
        r4 == BasicPlots(r3, basic_fail)
        r5 == IF extended /\ r4.error = NoError
              THEN ExtendedBlock(r4, df3, cols, extended_fail) ELSE r4
    IN  [result |-> r5, df |-> df3,
         plots |-> (IF basic_fail THEN {} ELSE BasicImages)
                   \cup (IF "data_quality" \in r5.extras /\ ~extended_fail
                         THEN ExtendedImages ELSE {})]

\* analyze_air_quality_data when every plot is drawn and written.
analyze_air_quality_data(f, sd, ed, extended) ==
    analyze_with_plots(f, sd, ed, extended, FALSE, FALSE)

-----------------------------------------------------------------------------
(* analyze.py *)

\* A stable sort of <<key, item>> pairs by key: each pair is inserted after
\* the pairs that are not greater (equal keys keep their order).
RECURSIVE SortKeyed(_)
SortKeyed(ps) ==
    IF ps = <<>> THEN <<>>
    ELSE LET n == Len(ps)
             front == SortKeyed(SubSeq(ps, 1, n - 1))
             last == ps[n]
             k == Cardinality({i \in DOMAIN front : front[i][1] <= last[1]})
         IN  SubSeq(front, 1, k) \o <<last>> \o SubSeq(front, k + 1, Len(front))

\* df.sort_values('created_at')
SortByTime(rows) ==
    LET o == SortKeyed([i \in DOMAIN rows |-> <<rows[i]["created_at"], rows[i]>>])
    IN  [i \in DOMAIN o |-> o[i][2]]

\* A sequence of values in ascending order.
SortValues(s) ==
    LET o == SortKeyed([i \in DOMAIN s |-> <<s[i], s[i]>>])
    IN  [i \in DOMAIN o |-> o[i][2]]

\* FIELD_MAPPING: for each target the candidate columns in the order tried.
FIELD_MAPPING(m) == <<LegacyOf(m), m>>

\* Lines 80-90: the first candidate present feeds the target column, coerced
\* to numeric; with none present the target column is all NaN.  cols are the
\* columns of the frame, rows its rows.
MapField(cols, rows, m) ==
    LET cand == FIELD_MAPPING(m)
    IN  IF cand[1] \in cols THEN SetNumeric(rows, m, cand[1])
        ELSE IF cand[2] \in cols THEN SetNumeric(rows, m, cand[2])
        ELSE SetColNaN(rows, m)

\* Line 104: df.dropna(subset=['pm25', 'pm10'])
DropMissingPollutants(rows) == DropNa(rows, {"pm25", "pm10"})

\* load_data: ok = FALSE stands for the None it returns on a missing file or
\* on any exception (read_csv, or KeyError for a CSV without created_at).
load_data(f, sd, ed) ==
    IF f.kind # "ok" \/ "created_at" \notin f.cols
    THEN [ok |-> FALSE, rows |-> <<>>]
    ELSE
    LET parsed == ParseTimes(f.rows)
        timed == DropNa(parsed, {"created_at"})
        sorted == SortByTime(timed)
        d1 == MapField(f.cols, sorted, "pm25")
        d2 == MapField(f.cols \cup {"pm25"}, d1, "pm10")
        d3 == MapField(f.cols \cup {"pm25", "pm10"}, d2, "temperature")
        d4 == MapField(f.cols \cup {"pm25", "pm10", "temperature"}, d3, "humidity")
        from == IF sd # None THEN FilterFrom(d4, sd) ELSE d4
        to == IF ed # None THEN FilterTo(from, ed) ELSE from
    IN  [ok |-> TRUE, rows |-> DropMissingPollutants(to)]

\* Series.median(): the middle value, or the mean of the two middle values.
Median(s) ==
    LET o == SortValues(s)
        n == Len(o)
    IN  IF n % 2 = 1 THEN Rat(o[(n + 1) \div 2], 1)
        ELSE Rat(o[n \div 2] + o[n \div 2 + 1], 2)

\* Series.std() squared (ddof = 1): nan for a single value.
Variance(s) ==
    LET n == Len(s)
        ss == SumSeq([i \in DOMAIN s |-> s[i] * s[i]])
        t == SumSeq(s)
    IN  IF n < 2 THEN [nan |-> TRUE, sq |-> Zero]
        ELSE [nan |-> FALSE, sq |-> Rat(n * ss - t * t, n * (n - 1))]

\* AQI_LEVELS, the max of each entry in tenths of a microgram.
AQI_LEVELS(pollutant) ==
    IF pollutant = "pm10"
    THEN <<[max |-> 540, level |-> "Good", color |-> "green"],
           [max |-> 1540, level |-> "Moderate", color |-> "yellow"],
           [max |-> 2540, level |-> "Unhealthy for Sensitive Groups", color |-> "orange"],
           [max |-> 3540, level |-> "Unhealthy", color |-> "red"],
           [max |-> 4240, level |-> "Very Unhealthy", color |-> "purple"],
           [max |-> 6040, level |-> "Hazardous", color |-> "maroon"]>>
    \* AQI_LEVELS.get(pollutant, AQI_LEVELS["pm25"])
    ELSE <<[max |-> 120, level |-> "Good", color |-> "green"],
           [max |-> 354, level |-> "Moderate", color |-> "yellow"],
           [max |-> 554, level |-> "Unhealthy for Sensitive Groups", color |-> "orange"],
           [max |-> 1504, level |-> "Unhealthy", color |-> "red"],
           [max |-> 2504, level |-> "Very Unhealthy", color |-> "purple"],
           [max |-> 5000, level |-> "Hazardous", color |-> "maroon"]>>

\* A value that is nan, as a rational.
NaNValue == <<0, 0>>

\* The loop over the levels with < in the place of <=.
RECURSIVE FirstLevelBelow(_, _, _)
FirstLevelBelow(levels, value, k) ==
    IF k > Len(levels) THEN [level |-> "Extremely Hazardous", color |-> "black"]
    ELSE IF ~RatLeq(<<levels[k].max, 10>>, value)
    THEN [level |-> levels[k].level, color |-> levels[k].color]
    ELSE FirstLevelBelow(levels, value, k + 1)

\* Lines 193-200: the loop over the levels from entry k on.
RECURSIVE FirstLevel(_, _, _)
FirstLevel(levels, value, k) ==
    IF k > Len(levels) THEN [level |-> "Extremely Hazardous", color |-> "black"]
    ELSE IF RatLeq(value, <<levels[k].max, 10>>)
    THEN [level |-> levels[k].level, color |-> levels[k].color]
    ELSE FirstLevel(levels, value, k + 1)

\* get_air_quality_level(value, pollutant), value a rational or NaNValue.
get_air_quality_level(value, pollutant) ==
    IF value = NaNValue THEN [level |-> "Unknown", color |-> "gray"]
    ELSE FirstLevel(AQI_LEVELS(pollutant), value, 1)

\* The five statistics of one column, over its non-missing values.
StatSummary(rows, col) ==
    LET v == ValidValues(rows, col)
    IN  [mean |-> Mean(v), median |-> Median(v),
         min |-> MinOf(v), max |-> MaxOf(v), std |-> Variance(v)]

\* Lines 169-170: stats[m]["air_quality"] from the mean of the pollutant.
WithAirQuality(summary, pollutant) ==
    [mean |-> summary.mean, median |-> summary.median, min |-> summary.min,
     max |-> summary.max, std |-> summary.std,
     air_quality |-> get_air_quality_level(summary.mean, pollutant)]

\* calculate_statistics(df); none = TRUE stands for df = None.
calculate_statistics(none, rows) ==
    IF none \/ Len(rows) = 0
    THEN [count |-> 0, error |-> "No data available"]
    ELSE [count |-> Len(rows),
          error |-> NoError,
          date_range |-> [start |-> TsMin(rows), end |-> TsMax(rows)],
          pm25 |-> WithAirQuality(StatSummary(rows, "pm25"), "pm25"),
          pm10 |-> WithAirQuality(StatSummary(rows, "pm10"), "pm10"),
          temperature |->
              IF ValidValues(rows, "temperature") # <<>>
              THEN StatSummary(rows, "temperature") ELSE Absent,
          humidity |->
              IF ValidValues(rows, "humidity") # <<>>
              THEN StatSummary(rows, "humidity") ELSE Absent]

\* No heatmap description was written.
NoSlots == [absent |-> TRUE]

VizTypes == {"time_series", "daily_pattern", "heatmap", "correlation"}

\* create_heatmap line 372
day_names ==
    <<"Monday", "Tuesday", "Wednesday", "Thursday", "Friday", "Saturday", "Sunday">>


\* Lines 365-369: df.groupby(['day_of_week', 'hour'])['pm25'].mean().unstack():
\* one row per weekday that occurs, one column per hour that occurs, both
\* ascending; the mean of pm25 in each cell, NaN where no row falls.
heatmap_data(rows) ==
    LET days == Ascending({DayOfWeek(rows[i]["created_at"]) : i \in DOMAIN rows})
        hours == Ascending({HourOf(rows[i]["created_at"]) : i \in DOMAIN rows})
        cell(d, h) ==
            ValidValues(SelectSeq(rows, LAMBDA r : /\ DayOfWeek(r["created_at"]) = d
                                                   /\ HourOf(r["created_at"]) = h),
                        "pm25")
    IN  [ri \in DOMAIN days |->
            [ci \in DOMAIN hours |->
                IF cell(days[ri], hours[ci]) = <<>> THEN CellNaN
                ELSE Mean(cell(days[ri], hours[ci]))]]

\* np.where(values == v): the positions <<row, column>> (from 1) holding v.
WhereEqual(grid, v) ==
    {p \in UNION {{<<ri, ci>> : ci \in DOMAIN grid[ri]} : ri \in DOMAIN grid} :
        grid[p[1]][p[2]] = v}

\* indices[0][0], indices[1][0]: the first position in row-major order.
FirstRowMajor(P) ==
    CHOOSE p \in P : \A q \in P : p[1] < q[1] \/ (p[1] = q[1] /\ p[2] <= q[2])

\* Lines 400-422 of create_heatmap: the slots named in the description.  The
\* day is day_names at the row position of the cell, the hour is the column
\* position of the cell.
heatmap_slots(rows) ==
    LET grid == heatmap_data(rows)
        vals == {grid[ri][ci] : ri \in DOMAIN grid, ci \in 1..Len(grid[1])} \ {CellNaN}
        max_value == CHOOSE v \in vals : \A w \in vals : RatLeq(w, v)
        min_value == CHOOSE v \in vals : \A w \in vals : RatLeq(v, w)
        worst == FirstRowMajor(WhereEqual(grid, max_value))
        best == FirstRowMajor(WhereEqual(grid, min_value))
    \* positions count from 1 here and from 0 in numpy; day_names is indexed
    \* from 1 here and from 0 in Python
    IN  [worst_day |-> day_names[worst[1]], worst_hour |-> worst[2] - 1,
         best_day |-> day_names[best[1]], best_hour |-> best[2] - 1]

\* The chart functions create_time_series, create_daily_pattern,
\* create_heatmap, create_correlation: the path they return (NoPath for
\* None), or raised = TRUE when the drawing or the file write raises (for
\* the heatmap also ax.set_yticklabels(day_names), which a matplotlib that
\* checks the number of labels rejects when fewer than seven weekdays occur).
NoPath == ""
create_chart(viz_type, rows, render_fails) ==
    IF Len(rows) = 0
    THEN [raised |-> FALSE, path |-> NoPath, description |-> "No data available",
          slots |-> NoSlots]
    ELSE IF viz_type = "correlation"
            /\ ValidValues(rows, "temperature") = <<>>
            /\ ValidValues(rows, "humidity") = <<>>
    THEN [raised |-> FALSE, path |-> NoPath,
          description |-> "Temperature and humidity data not available",
          slots |-> NoSlots]
    ELSE IF render_fails
    THEN [raised |-> TRUE, path |-> NoPath, description |-> "", slots |-> NoSlots]
    ELSE [raised |-> FALSE, path |-> "/images/" \o viz_type \o ".png",
          description |-> "description",
          slots |-> IF viz_type = "heatmap" THEN heatmap_slots(rows) ELSE NoSlots]

\* analyze_data from line 556 on, d being what load_data returned: the
\* result dictionary, the frame it worked on and the slots the heatmap
\* description names.
analyze_loaded(d, viz_type, render_fails) ==
    LET r0 == [success |-> FALSE, statistics |-> Absent,
               visualization |-> [type |-> viz_type, path |-> NoPath,
                                  description |-> ""],
               error |-> NoError]
    IN  IF ~d.ok \/ Len(d.rows) = 0
        THEN [result |-> [r0 EXCEPT !.error = "No data available for analysis"],
              df |-> d.rows, slots |-> NoSlots]
        ELSE
        LET r1 == [r0 EXCEPT !.statistics = calculate_statistics(FALSE, d.rows)]
            c == create_chart(viz_type, d.rows, render_fails)
        IN  IF c.raised
            THEN [result |-> [r1 EXCEPT !.error = "exception"], df |-> d.rows,
                  slots |-> NoSlots]
            ELSE [result |->
                      [r1 EXCEPT !.visualization.path = c.path,
                                 !.visualization.description = c.description,
                                 !.success = (c.path # NoPath)],
                  df |-> d.rows, slots |-> c.slots]

analyze_data(f, viz_type, sd, ed, render_fails) ==
    analyze_loaded(load_data(f, sd, ed), viz_type, render_fails)

-----------------------------------------------------------------------------
(* visualization.py *)

\* column_mapping: a legacy column is copied under its semantic name when
\* that name is not a column yet (lines 55-57); no numeric coercion.
MapLegacy(cols, rows) ==
    [i \in DOMAIN rows |->
        [c \in cols \cup {m \in Metrics : LegacyOf(m) \in cols} |->
            IF c \in cols THEN rows[i][c] ELSE rows[i][LegacyOf(c)]]]

\* Lines 33-35: the date filter, applied only when both dates are supplied.
VizFilter(rows, sd, ed) ==
    IF sd # None /\ ed # None
    THEN FilterTo(FilterFrom(ParseTimes(rows), sd), ed)
    ELSE rows

\* The columns each chart function reads.
ChartColumns(viz_type) ==
    CASE viz_type = "correlation" -> {"pm25", "temperature", "humidity"}
      [] viz_type = "time_series" -> {"pm25", "pm10", "temperature"}
      [] OTHER -> Metrics

\* Whether the chart function raises: a column it reads is absent (KeyError),
\* a time stamp does not parse (pd.to_datetime without coerce), a text cell
\* is aggregated, nothing is left to take the peak or the first date from,
\* or the drawing / file write fails.
ChartRaises(viz_type, cols, rows, render_fails) ==
    \/ render_fails
    \/ ~(ChartColumns(viz_type) \subseteq cols)
    \/ /\ viz_type \in {"time_series", "daily_pattern"}
       /\ \E i \in DOMAIN rows : rows[i]["created_at"] = Bad
    \/ /\ viz_type = "time_series"
       /\ \A i \in DOMAIN rows : rows[i]["created_at"] < 0
    \/ /\ viz_type = "daily_pattern"
       /\ \/ \E i \in DOMAIN rows : \E c \in Metrics : rows[i][c] = Bad
          \/ \A i \in DOMAIN rows : rows[i]["created_at"] < 0 \/ rows[i]["pm25"] < 0
    \/ /\ viz_type = "heatmap"
       /\ \E i \in DOMAIN rows : \E c \in Metrics : rows[i][c] = Bad

\* visualization.py main up to the chart: the frame it works on and whether
\* an exception reached the outer except.
visualization_main(f, viz_type, sd, ed, dir_fails, render_fails) ==
    IF dir_fails \/ f.kind # "ok" THEN [raised |-> TRUE, df |-> <<>>]
    ELSE IF sd # None /\ ed # None /\ "created_at" \notin f.cols
    THEN [raised |-> TRUE, df |-> f.rows]
    ELSE
    LET rows == VizFilter(f.rows, sd, ed)
    IN  IF Len(rows) = 0 \/ f.cols = {} \/ "created_at" \notin f.cols
        THEN [raised |-> TRUE, df |-> rows]
        ELSE
        LET mapped == MapLegacy(f.cols, rows)
            cols == f.cols \cup {m \in Metrics : LegacyOf(m) \in f.cols}
        IN  [raised |-> ChartRaises(viz_type, cols, mapped, render_fails),
             df |-> mapped]

-----------------------------------------------------------------------------
(* correlation_large.py *)

\* chunk_size = 50000
DefaultChunkSize == 50000

\* Lines 11-20: the accumulators.
ZeroAcc ==
    [pm25_temp_products |-> 0, pm25_hum_products |-> 0,
     pm25_sum |-> 0, pm10_sum |-> 0, temp_sum |-> 0, hum_sum |-> 0,
     pm25_squared_sum |-> 0, temp_squared_sum |-> 0, hum_squared_sum |-> 0,
     count |-> 0]

\* calculate_correlation: 0 when the denominator is 0.
calculate_correlation(xy_sum, x_sum, y_sum, x_squared_sum, y_squared_sum, n) ==
    LET numerator == n * xy_sum - x_sum * y_sum
        radicand == (n * x_squared_sum - x_sum * x_sum)
                    * (n * y_squared_sum - y_sum * y_sum)
    IN  IF radicand = 0 THEN CoefZero ELSE Coef(numerator, radicand)

\* Lines 34-35: the date filter, applied only when both dates are supplied.
ChunkFilter(rows, sd, ed) ==
    IF sd # None /\ ed # None THEN FilterTo(FilterFrom(rows, sd), ed) ELSE rows

\* Lines 41-47: the legacy columns overwrite the semantic ones, pairwise, when
\* both columns of the pair exist.
ChunkMap(cols, rows) ==
    LET pm == IF {"field3", "field4"} \subseteq cols
              THEN SetNumeric(SetNumeric(rows, "pm25", "field3"), "pm10", "field4")
              ELSE rows
    IN  IF {"field1", "field2"} \subseteq cols
        THEN SetNumeric(SetNumeric(pm, "humidity", "field1"), "temperature", "field2")
        ELSE pm

ChunkCols(cols) ==
    cols \cup (IF {"field3", "field4"} \subseteq cols THEN {"pm25", "pm10"} ELSE {})
         \cup (IF {"field1", "field2"} \subseteq cols
               THEN {"humidity", "temperature"} ELSE {})

\* Lines 56-68: the sums of one chunk added to the accumulators.
Accumulate(a, rows) ==
    [pm25_temp_products |-> a.pm25_temp_products + SumProd(rows, "pm25", "temperature"),
     pm25_hum_products |-> a.pm25_hum_products + SumProd(rows, "pm25", "humidity"),
     pm25_sum |-> a.pm25_sum + SumSeq([i \in DOMAIN rows |-> rows[i]["pm25"]]),
     pm10_sum |-> a.pm10_sum + SumSeq([i \in DOMAIN rows |-> rows[i]["pm10"]]),
     temp_sum |-> a.temp_sum + SumSeq([i \in DOMAIN rows |-> rows[i]["temperature"]]),
     hum_sum |-> a.hum_sum + SumSeq([i \in DOMAIN rows |-> rows[i]["humidity"]]),
     pm25_squared_sum |-> a.pm25_squared_sum + SumProd(rows, "pm25", "pm25"),
     temp_squared_sum |-> a.temp_squared_sum + SumProd(rows, "temperature", "temperature"),
     hum_squared_sum |-> a.hum_squared_sum + SumProd(rows, "humidity", "humidity"),
     count |-> a.count + Len(rows)]

\* Column m of the chunk is text when the pass reaches the sums: one of its
\* cells as read is text and lines 41-47 did not replace the column.
TextColumn(cols, raw, m) ==
    /\ IF m \in {"pm25", "pm10"} THEN ~({"field3", "field4"} \subseteq cols)
       ELSE ~({"field1", "field2"} \subseteq cols)
    /\ m \in cols
    /\ \E i \in DOMAIN raw : raw[i][m] = Bad

\* One pass of the loop body (lines 31-68) over the raw rows of a chunk:
\* the chunk as it stands at the end of the pass, the accumulators, and
\* whether the pass raised.
\*   pd.to_datetime (no errors='coerce') raises on a text that is no date,
\*   and chunk['created_at'] on a CSV without that column;
\*   dropna(subset=...) raises KeyError when one of the four columns is absent;
\*   read_csv infers the type of a column chunk by chunk: a text cell makes
\*   the column of that chunk text, and a column that was not coerced then
\*   raises in the sums (a number cannot be added to text).
process_chunk(a, cols, raw, sd, ed) ==
    IF "created_at" \notin cols \/ \E i \in DOMAIN raw : raw[i]["created_at"] = Bad
    THEN [raised |-> TRUE, chunk |-> raw, acc |-> a]
    ELSE
    LET inrange == ChunkFilter(raw, sd, ed)
    IN  IF Len(inrange) = 0 THEN [raised |-> FALSE, chunk |-> inrange, acc |-> a]
        ELSE
        LET mapped == ChunkMap(cols, inrange)
        IN  IF ~(Metrics \subseteq ChunkCols(cols))
            THEN [raised |-> TRUE, chunk |-> mapped, acc |-> a]
            ELSE
            LET complete == DropNa(mapped, Metrics)
            IN  IF Len(complete) = 0
                THEN [raised |-> FALSE, chunk |-> complete, acc |-> a]
                ELSE IF \E m \in Metrics : TextColumn(cols, raw, m)
                THEN [raised |-> TRUE, chunk |-> complete, acc |-> a]
                ELSE [raised |-> FALSE, chunk |-> complete,
                      acc |-> Accumulate(a, complete)]

\* Lines 93-94: the two coefficients from the accumulators.
StreamCoefficients(a) ==
    [pm25_temp_corr |->
        calculate_correlation(a.pm25_temp_products, a.pm25_sum, a.temp_sum,
                              a.pm25_squared_sum, a.temp_squared_sum, a.count),
     pm25_hum_corr |->
        calculate_correlation(a.pm25_hum_products, a.pm25_sum, a.hum_sum,
                              a.pm25_squared_sum, a.hum_squared_sum, a.count)]

-----------------------------------------------------------------------------
(* The inputs: CSV files and date arguments *)

\* created_at cells: unparsable, empty, and the hours around a midnight.
TimeCells == {Bad, NaT, 23, 24, 25}
\* start_date / end_date: not supplied, or the date whose midnight is hour 24.
Dates == {None, 24}

BaseCols == {"created_at"} \cup Metrics

Reading(ts, a, b, t, h) ==
    [c \in BaseCols |->
        CASE c = "created_at" -> ts
          [] c = "pm25" -> a
          [] c = "pm10" -> b
          [] c = "temperature" -> t
          [] c = "humidity" -> h]

SeqsUpTo(S, n) == UNION {[1..k -> S] : k \in 0..n}

\* Files that vary the time stamps.
TimeRows == {Reading(ts, a, 1, 1, 1) : ts \in TimeCells, a \in {1, 2}}
\* Files that vary the missing values.
ValueRows ==
    {Reading(24, a, b, t, 1) : a \in {NaN, 1, 2}, b \in {NaN, 1}, t \in {NaN, 1, 2}}
\* Files with a pm25 text that is not a number, also in a row without pm10.
TextRows == {Reading(24, a, 1, 1, 1) : a \in {Bad, 1}} \cup {Reading(24, Bad, NaN, 1, 1)}
\* Files that vary the columns: in row k a semantic column holds k and a
\* legacy column holds k + 2.
ColumnRow(cols, k) ==
    [c \in cols |->
        IF c = "created_at" THEN 24 ELSE IF c \in Metrics THEN k ELSE k + 2]

CsvFile(kind, cols, rows) == [kind |-> kind, cols |-> cols, rows |-> rows]

TimeFiles == {CsvFile("ok", BaseCols, rs) : rs \in SeqsUpTo(TimeRows, MaxRows)}
ValueFiles ==
    {CsvFile("ok", BaseCols, rs) : rs \in SeqsUpTo(ValueRows \cup TextRows, MaxRows)}
ColumnFiles ==
    {CsvFile("ok", {"created_at"} \cup cs, [i \in 1..n |-> ColumnRow({"created_at"} \cup cs, i)]) :
        n \in 1..MaxRows, cs \in SUBSET (Metrics \cup LegacyCols)}
BrokenFiles ==
    {CsvFile(k, BaseCols, <<>>) : k \in {"missing", "unreadable"}}
    \cup {CsvFile("ok", Metrics, <<[c \in Metrics |-> 1]>>)}
\* Files with one reading on each weekday, all at hour h; pm25 is 2 on
\* weekday k and 1 on the other days.
WeekFiles ==
    {CsvFile("ok", BaseCols,
             [i \in 1..DaysPerWeek |->
                 Reading(HoursPerDay * (i - 1) + h, IF i - 1 = k THEN 2 ELSE 1, 1, 1, 1)]) :
        h \in {0, 1}, k \in {0, DaysPerWeek - 1}}

\* Files with one pm25 value far from the others: 100 followed by 1s,
\* OutlierValues values in all, and after them at most one row without pm25.
OutlierValues == 11
OutlierFiles ==
    {CsvFile("ok", BaseCols,
             [i \in 1..(OutlierValues + extra) |->
                 Reading(24, IF i = 1 THEN 100 ELSE IF i <= OutlierValues THEN 1 ELSE NaN,
                         1, 1, 1)]) :
        extra \in {0, 1}}

NoStats == [count |-> 0]
\* No fetch step was run.
NoFetch == [absent |-> TRUE]
\* get_air_quality_level was not called.
NoAqi == [absent |-> TRUE]

\* Concentrations, in tenths: 0, and each max of the two tables with the
\* tenth below and the tenth above it.
AqiValues ==
    {0} \cup UNION {{AQI_LEVELS(p)[k].max + e : e \in {-1, 0, 1}} :
                        p \in {"pm25", "pm10"}, k \in 1..6}
AqiPollutants == {"pm25", "pm10", "o3"}
\* The calls that touch the output directory, in the order a run makes
\* them: "makedirs" for os.makedirs(output_dir, exist_ok=True) that returned,
\* "savefig" for a plt.savefig into the directory, whether it succeeds or not.
\* A failure of a chart is taken at its file write.
MakeAndSave == <<"makedirs", "savefig">>

\* analysis.py: the two basic plots (lines 286, 307, 319, 337) once the date
\* range is set, the four extended plots (lines 348, 395, 431, 473) once the
\* data quality block is stored.
AnalysisIo(r) ==
    (IF r.date_range.start # None THEN MakeAndSave \o MakeAndSave ELSE <<>>)
    \o (IF "data_quality" \in r.extras
        THEN MakeAndSave \o MakeAndSave \o MakeAndSave \o MakeAndSave ELSE <<>>)

\* analyze.py: the chart function that reaches its end creates the directory
\* and writes (lines 256-258, 326-328, 395-397, 491-493); the early returns
\* (no rows, no temperature and humidity for the correlation) do neither.
AnalyzeIo(viz_type, rows) ==
    IF Len(rows) = 0 THEN <<>>
    ELSE IF viz_type = "correlation"
            /\ ValidValues(rows, "temperature") = <<>>
            /\ ValidValues(rows, "humidity") = <<>>
    THEN <<>>
    ELSE MakeAndSave

\* visualization.py: os.makedirs at the start of main (line 24), the write of
\* the chart function when the run gets that far (reaches_write), and in the
\* except branch create_error_image, which creates the directory itself
\* (create_error_image.py lines 13, 26).
VisualizationIo(dir_fails, reaches_write, raised, error_image_ok) ==
    (IF dir_fails THEN <<>> ELSE <<"makedirs">>)
    \o (IF reaches_write THEN <<"savefig">> ELSE <<>>)
    \o (IF raised /\ error_image_ok THEN MakeAndSave ELSE <<>>)

\* The chunk sizes tried: the smallest ones and the one of the script.
ChunkSizes == {1, 2, DefaultChunkSize}

\* No script has run yet.
NothingRun ==
    /\ pc = "idle"
    /\ entry = ""
    /\ result = DefaultResult
    /\ df = <<>>
    /\ stats = NoStats
    /\ adresult = Absent
    /\ chunk = <<>>
    /\ chunk_size = 0
    /\ pos = 0
    /\ acc = ZeroAcc
    /\ corr = [pm25_temp_corr |-> CoefZero, pm25_hum_corr |-> CoefZero]
    /\ stdout = <<>>
    /\ exit_code = 0
    /\ crashed = FALSE
    /\ slots = NoSlots
    /\ fetch = NoFetch
    /\ plots = {}
    /\ aqi = NoAqi
    /\ io = <<>>
    /\ clock = 0
    /\ written = <<>>
    /\ validation = Absent
    /\ http = Absent

Init ==
    /\ \/ file \in TimeFiles /\ start_date \in Dates /\ end_date \in Dates
       \/ file \in ValueFiles \cup ColumnFiles \cup BrokenFiles \cup WeekFiles
                   \cup OutlierFiles
          /\ start_date = None /\ end_date = None
    /\ NothingRun

\* analysis.py: one call of analyze_air_quality_data.
AnalyzeAirQualityData ==
    /\ pc = "idle"
    /\ \E extended \in BOOLEAN, basic_fail \in BOOLEAN, extended_fail \in BOOLEAN :
       \E out \in {analyze_with_plots(file, start_date, end_date, extended,
                                      basic_fail, extended_fail)} :
          /\ result' = out.result
          /\ df' = out.df
          /\ plots' = out.plots
          /\ io' = AnalysisIo(out.result)
    /\ pc' = "done"
    /\ entry' = "analysis"
    /\ UNCHANGED <<file, start_date, end_date, stats, adresult, chunk,
                   chunk_size, pos, acc, corr, stdout, exit_code, crashed,
                   slots, fetch, aqi,
                   clock, written, validation, http>>

\* The two lines analyze.py main prints for the calling process.
AnalyzeLines(r) ==
    IF r.visualization.path # NoPath
    THEN <<r.visualization.path, r.visualization.description>>
    ELSE <<"/images/error.png",
           IF r.error # NoError THEN r.error
           ELSE "Analysis failed without specific error message.">>

\* analyze.py main: the two lines, the JSON dump when arguments were given,
\* and the exit status.
AnalyzeMain ==
    /\ pc = "idle"
    /\ \E d \in {load_data(file, start_date, end_date)} :
       \E viz_type \in VizTypes, render_fails \in BOOLEAN, with_args \in BOOLEAN :
       \E out \in {analyze_loaded(d, viz_type, render_fails)} :
          /\ adresult' = out.result
          /\ df' = out.df
          /\ stats' = IF out.result.statistics = Absent THEN NoStats
                      ELSE out.result.statistics
          /\ stdout' = IF with_args THEN AnalyzeLines(out.result) \o <<"json">>
                       ELSE AnalyzeLines(out.result)
          /\ exit_code' = IF out.result.success THEN 0 ELSE 1
          /\ slots' = out.slots
          /\ io' = AnalyzeIo(viz_type, d.rows)
    /\ pc' = "done"
    /\ entry' = "analyze"
    /\ UNCHANGED <<file, start_date, end_date, result, chunk, chunk_size,
                   pos, acc, corr, crashed, fetch, plots, aqi,
                   clock, written, validation, http>>

\* visualization.py main: the chart, or in the except branch the error image
\* (create_error_image, or the fixed path when that script is missing or
\* fails); two lines are printed on every path.
VisualizationMain ==
    /\ pc = "idle"
    /\ \E viz_type \in VizTypes, dir_fails \in BOOLEAN, render_fails \in BOOLEAN :
       \E out \in {visualization_main(file, viz_type, start_date, end_date,
                                      dir_fails, render_fails)} :
       \E clean \in {visualization_main(file, viz_type, start_date, end_date,
                                        dir_fails, FALSE)} :
       \E error_image_ok \in BOOLEAN :
          /\ df' = out.df
          /\ io' = VisualizationIo(dir_fails, ~clean.raised, out.raised, error_image_ok)
          /\ stdout' = IF ~out.raised
                       THEN <<"/images/" \o viz_type \o ".png", "description">>
                       ELSE IF error_image_ok
                       THEN <<"/images/error_timestamp.png", "Error: message">>
                       ELSE <<"/images/error.png", "Error: message">>
    \* main returns on both paths: the process ends with status 0
    /\ exit_code' = 0
    /\ pc' = "done"
    /\ entry' = "visualization"
    /\ UNCHANGED <<file, start_date, end_date, result, stats, adresult, chunk,
                   chunk_size, pos, acc, corr, crashed,
                   slots, fetch, plots, aqi,
                   clock, written, validation, http>>

\* correlation_large.py __main__ up to the first chunk: the accumulators are
\* zeroed and read_csv opens the file, which raises when it cannot.
StreamStart ==
    /\ pc = "idle"
    /\ entry' = "correlation_large"
    /\ \E size \in ChunkSizes : chunk_size' = size
    /\ acc' = ZeroAcc
    \* an uncaught exception ends the interpreter with status 1
    /\ IF file.kind # "ok"
       THEN pc' = "done" /\ crashed' = TRUE /\ exit_code' = 1
       ELSE pc' = "chunks" /\ crashed' = FALSE /\ exit_code' = 0
    /\ UNCHANGED <<file, start_date, end_date, result, df, stats, adresult,
                   chunk, pos, corr, stdout,
                   slots, fetch, plots, aqi, io,
                   clock, written, validation, http>>

\* One iteration of "for chunk in pd.read_csv(csv_path, chunksize=chunk_size)".
StreamChunk ==
    /\ pc = "chunks"
    /\ pos < Len(file.rows)
    /\ \E last \in {IF pos + chunk_size < Len(file.rows) THEN pos + chunk_size
                    ELSE Len(file.rows)} :
       \E out \in {process_chunk(acc, file.cols, SubSeq(file.rows, pos + 1, last),
                                 start_date, end_date)} :
          /\ chunk' = out.chunk
          /\ acc' = out.acc
          /\ pos' = last
          /\ crashed' = out.raised
          /\ exit_code' = IF out.raised THEN 1 ELSE 0
          /\ pc' = IF out.raised THEN "done" ELSE "chunks"
    /\ UNCHANGED <<file, start_date, end_date, entry, result, df, stats,
                   adresult, chunk_size, corr, stdout,
                   slots, fetch, plots, aqi, io,
                   clock, written, validation, http>>

\* After the last chunk (lines 70-144, 171-173): the placeholder chart when
\* nothing was counted, else the coefficients and the chart; then the two
\* lines.  The file write raises when it fails (the directory is not created
\* here), and nothing catches it.
StreamFinish ==
    /\ pc = "chunks"
    /\ pos >= Len(file.rows)
    /\ \E render_fails \in BOOLEAN :
          /\ corr' = IF acc.count = 0 THEN corr ELSE StreamCoefficients(acc)
          /\ crashed' = render_fails
          /\ exit_code' = IF render_fails THEN 1 ELSE 0
          /\ stdout' = IF render_fails THEN stdout
                       ELSE IF acc.count = 0
                       THEN <<"/images/correlation_timestamp.png",
                              "No data available for the selected period.">>
                       ELSE <<"/images/correlation_timestamp.png", "description">>
    /\ pc' = "done"
    /\ io' = io \o <<"savefig">>
    /\ UNCHANGED <<file, start_date, end_date, entry, result, df, stats,
                   adresult, chunk, chunk_size, pos, acc,
                   slots, fetch, plots, aqi,
                   clock, written, validation, http>>

\* What fetch_and_save writes to the data file when it succeeds: the feed
\* with the four legacy fields and their mapped names (fetch_data.py lines
\* 106-113), here two entries.
FetchedFile ==
    CsvFile("ok", BaseCols \cup LegacyCols,
            [i \in 1..2 |->
                [c \in BaseCols \cup LegacyCols |->
                    IF c = "created_at" THEN HoursPerDay + i - 1 ELSE i]])

\* A data file younger than this many seconds is not fetched again.
MaxFileAge == 3600

\* The ages of the data file tried: just under and exactly an hour.
FileAges == {MaxFileAge - 1, MaxFileAge}

\* The file is fetched again only when it is older than the hour.
need_fetch_when_older(force_fetch, exists, file_age) ==
    ~(~force_fetch /\ exists /\ file_age <= MaxFileAge)

\* need_fetch of run_full_analysis (lines 59-70): True unless the fetch is
\* not forced, the data file exists and is less than an hour old.
need_fetch(force_fetch, exists, file_age) ==
    ~(~force_fetch /\ exists /\ file_age < MaxFileAge)

\* run_analysis.py up to the end of step 1 of run_full_analysis: the log
\* file is opened when the module is loaded (an uncaught exception when the
\* logs directory is missing), then the data file is fetched when forced,
\* missing or at least an hour old; a successful fetch replaces the file.
RunFetch ==
    /\ pc = "idle"
    /\ entry' = "run_analysis"
    /\ \E logs_ok \in BOOLEAN, force_fetch \in BOOLEAN, file_age \in FileAges,
          saved \in BOOLEAN :
          \E needed \in {need_fetch(force_fetch, file.kind # "missing", file_age)} :
             IF ~logs_ok
             THEN /\ crashed' = TRUE
                  /\ exit_code' = 1
                  /\ pc' = "done"
                  /\ UNCHANGED <<file, fetch>>
             ELSE /\ crashed' = FALSE
                  /\ exit_code' = 0
                  /\ pc' = "fetched"
                  /\ fetch' = [needed |-> needed,
                               success |-> IF needed THEN saved ELSE TRUE,
                               force_fetch |-> force_fetch,
                               existed |-> file.kind # "missing",
                               file_age |-> file_age]
                  /\ file' = IF needed /\ saved THEN FetchedFile ELSE file
    /\ UNCHANGED <<start_date, end_date, result, df, stats, adresult, chunk,
                   chunk_size, pos, acc, corr, stdout, slots, plots, aqi, io,
                   clock, written, validation, http>>

\* The two lines run_analysis.py main prints.
RunLines(r) ==
    IF r.visualization.path # NoPath
    THEN <<r.visualization.path, r.visualization.description>>
    ELSE <<"/images/error.png", r.error>>

\* run_analysis.py from step 2 on: analyze_data on the data file, the two
\* lines, the JSON when asked for, and the exit status from overall_success
\* (the success of the analysis).
RunAnalyze ==
    /\ pc = "fetched"
    /\ \E d \in {load_data(file, start_date, end_date)} :
       \E viz_type \in VizTypes, render_fails \in BOOLEAN, output_json \in BOOLEAN :
       \E out \in {analyze_loaded(d, viz_type, render_fails)} :
          /\ adresult' = out.result
          /\ df' = out.df
          /\ slots' = out.slots
          /\ io' = AnalyzeIo(viz_type, d.rows)
          /\ stats' = IF out.result.statistics = Absent THEN NoStats
                      ELSE out.result.statistics
          /\ stdout' = IF output_json THEN RunLines(out.result) \o <<"json">>
                       ELSE RunLines(out.result)
          /\ exit_code' = IF out.result.success THEN 0 ELSE 1
    /\ pc' = "done"
    /\ UNCHANGED <<file, start_date, end_date, entry, result, chunk, chunk_size,
                   pos, acc, corr, crashed, fetch, plots, aqi,
                   clock, written, validation, http>>

Next ==
    \/ AnalyzeAirQualityData
    \/ AnalyzeMain
    \/ VisualizationMain
    \/ StreamStart
    \/ StreamChunk
    \/ StreamFinish
    \/ RunFetch
    \/ RunAnalyze

Spec == Init /\ [][Next]_vars

\* analyze.py get_air_quality_level alone, on the concentrations AqiValues
\* and on nan.
GetAirQualityLevel ==
    /\ pc = "idle"
    /\ \E value \in {<<v, 10>> : v \in AqiValues} \cup {NaNValue},
          pollutant \in AqiPollutants :
          aqi' = [value |-> value, pollutant |-> pollutant,
                  info |-> get_air_quality_level(value, pollutant)]
    /\ pc' = "done"
    /\ entry' = "get_air_quality_level"
    /\ UNCHANGED <<file, start_date, end_date, result, df, stats, adresult,
                   chunk, chunk_size, pos, acc, corr, stdout, exit_code, crashed,
                   slots, fetch, plots, io, clock, written, validation, http>>

InitAqi == Init /\ file = CsvFile("missing", BaseCols, <<>>)

SpecAqi == InitAqi /\ [][GetAirQualityLevel]_vars

-----------------------------------------------------------------------------
(* The image files of successive and concurrent invocations *)

\* The clock advances in ticks; datetime.now().strftime('%Y%m%d%H%M%S')
\* keeps the whole seconds.
TicksPerSecond == 2
MaxClock == 3
MaxInvocations == 2
strftime(now) == now \div TicksPerSecond

\* The scripts that write an image.
Scripts == {"analyze", "visualization", "correlation_large", "create_error_image",
            "analysis"}

\* The file a script writes in the images directory at time now: analyze.py
\* and visualization.py f"{viz_type}_{timestamp}.png", correlation_large.py
\* f"correlation_{timestamp}.png", create_error_image.py
\* f"error_{timestamp}.png", analysis.py the fixed 'time_series.png'
\* (stamp None).
image_file(script, viz_type, now) ==
    CASE script \in {"analyze", "visualization"} ->
             [stem |-> viz_type, stamp |-> strftime(now)]
      [] script = "correlation_large" ->
             [stem |-> "correlation", stamp |-> strftime(now)]
      [] script = "create_error_image" ->
             [stem |-> "error", stamp |-> strftime(now)]
      [] OTHER -> [stem |-> "time_series", stamp |-> None]

\* Time passes.
Tick ==
    /\ clock < MaxClock
    /\ clock' = clock + 1
    /\ UNCHANGED <<file, start_date, end_date, pc, entry, result, df, stats,
                   adresult, chunk, chunk_size, pos, acc, corr, stdout,
                   exit_code, crashed, slots, fetch, plots, aqi, io, written,
                   validation, http>>

\* One invocation of a script takes its time stamp and writes its image;
\* invocations are independent processes, so any number of them may do so
\* between two ticks.
Invoke ==
    /\ Len(written) < MaxInvocations
    /\ \E script \in Scripts, viz_type \in VizTypes :
          written' = Append(written, image_file(script, viz_type, clock))
    /\ UNCHANGED <<file, start_date, end_date, pc, entry, result, df, stats,
                   adresult, chunk, chunk_size, pos, acc, corr, stdout,
                   exit_code, crashed, slots, fetch, plots, aqi, io, clock,
                   validation, http>>

InitFiles == Init /\ file = CsvFile("missing", BaseCols, <<>>)

NextFiles == Tick \/ Invoke

SpecFiles == InitFiles /\ [][NextFiles]_vars

-----------------------------------------------------------------------------
(* data_validator.py *)

\* The columns the validator requires, in the order it checks them.
RequiredColumns == <<"created_at", "field1", "field2", "field3", "field4">>

\* chunk_size of the detailed pass.
ValidatorChunkSize == 10000

\* Files for the validator: every cell present or missing, a time stamp
\* that parses or a text that does not, with all required columns or with
\* one of them left out.
ValidatorRows ==
    {[created_at |-> ts, field1 |-> h, field2 |-> 1, field3 |-> a, field4 |-> b] :
        ts \in {24, Bad}, h \in {1, NaN}, a \in {1, NaN}, b \in {1, NaN}}
ValidatorCols == {RequiredColumns[k] : k \in DOMAIN RequiredColumns}
ValidatorFiles ==
    {CsvFile("ok", ValidatorCols, rs) : rs \in SeqsUpTo(ValidatorRows, MaxRows)}
    \cup {CsvFile("ok", ValidatorCols \ {c},
                  [i \in 1..n |-> [d \in ValidatorCols \ {c} |-> 1]]) :
              n \in 1..MaxRows, c \in {"created_at", "field3"}}
    \cup {CsvFile("missing", ValidatorCols, <<>>)}

\* The second command-line argument: absent (None), a text of digits (its
\* number) or another text (Bad).
MaxRecordsArgs == {None, Bad} \cup (0..(MaxRows + 1))

\* Lines 36-39: the number for a text of digits, None otherwise.
ParseMaxRecords(max_records) ==
    IF max_records # None /\ max_records # Bad THEN max_records ELSE None

\* `max_records and ...`: None and 0 are false.
Truthy(max_records) == max_records # None /\ max_records # 0

\* Lines 65-71: the first pass counts the lines after the header and stops
\* at line number max_records; i is the line about to be read.
RECURSIVE CountLines(_, _, _, _)
CountLines(lines, max_records, i, total_records) ==
    IF i > lines THEN total_records
    ELSE IF Truthy(max_records) /\ i >= max_records THEN total_records + 1
    ELSE CountLines(lines, max_records, i + 1, total_records + 1)

\* chunk.head(n): the first n rows, or all but the last -n for a negative n.
DataFrameHead(rows, n) ==
    IF n >= 0 THEN SubSeq(rows, 1, IF n < Len(rows) THEN n ELSE Len(rows))
    ELSE SubSeq(rows, 1, IF Len(rows) + n > 0 THEN Len(rows) + n ELSE 0)

\* pd.notna(row.get(col)): a column the chunk does not have gives None.
Present(row, col) == col \in DOMAIN row /\ row[col] # NaN

\* pd.notna of the time stamp after to_datetime(errors='coerce').
ValidDate(row) == row["created_at"] \notin {NaN, NaT, Bad}

NoCounts ==
    [field1_present |-> 0, field2_present |-> 0, field3_present |-> 0,
     field4_present |-> 0, valid_dates |-> 0, valid_records |-> 0,
     examined |-> 0, invalid_examples |-> <<>>]

\* Lines 88-115: the loop over the rows of one chunk, k the row about to be
\* examined, first_index the index label of the first row of the chunk.
RECURSIVE ValidateRows(_, _, _, _)
ValidateRows(chunk_rows, first_index, k, counts) ==
    IF k > Len(chunk_rows) THEN counts
    ELSE
    LET row == chunk_rows[k]
        is_valid == ValidDate(row) /\ Present(row, "field3") /\ Present(row, "field4")
        counted ==
            [counts EXCEPT
                !.field1_present = @ + (IF Present(row, "field1") THEN 1 ELSE 0),
                !.field2_present = @ + (IF Present(row, "field2") THEN 1 ELSE 0),
                !.field3_present = @ + (IF Present(row, "field3") THEN 1 ELSE 0),
                !.field4_present = @ + (IF Present(row, "field4") THEN 1 ELSE 0),
                !.valid_dates = @ + (IF ValidDate(row) THEN 1 ELSE 0),
                !.examined = @ + 1]
    IN  ValidateRows(chunk_rows, first_index, k + 1,
            IF is_valid THEN [counted EXCEPT !.valid_records = @ + 1]
            ELSE IF Len(counts.invalid_examples) < 10
            THEN [counted EXCEPT !.invalid_examples =
                      Append(@, first_index + k - 1)]
            ELSE counted)

\* Lines 77-81: one "Missing required column" issue for each required
\* column the chunk lacks.
MissingColumnIssues(cols) ==
    SelectSeq(RequiredColumns, LAMBDA c : c \notin cols)

\* Lines 74-118: the loop over the chunks pandas reads, from the row at
\* position from on. The cut of line 75 needs total_records > max_records.
\* A chunk without created_at raises KeyError at line 84.
RECURSIVE ValidateChunks(_, _, _, _, _, _)
ValidateChunks(f, from, total_records, max_records, counts, issues) ==
    IF from > Len(f.rows)
    THEN [raised |-> FALSE, counts |-> counts, issues |-> issues]
    ELSE
    LET upto == IF from + ValidatorChunkSize - 1 < Len(f.rows)
                THEN from + ValidatorChunkSize - 1 ELSE Len(f.rows)
        read == SubSeq(f.rows, from, upto)
        chunk_rows ==
            IF Truthy(max_records) /\ total_records > max_records
            THEN DataFrameHead(read, max_records - total_records + Len(read))
            ELSE read
        issues1 == issues \o MissingColumnIssues(f.cols)
    IN  IF "created_at" \notin f.cols
        THEN [raised |-> TRUE, counts |-> counts, issues |-> issues1]
        ELSE
        LET counts1 == ValidateRows(chunk_rows, from - 1, 1, counts)
        IN  IF Truthy(max_records) /\ total_records >= max_records
            THEN [raised |-> FALSE, counts |-> counts1, issues |-> issues1]
            ELSE ValidateChunks(f, from + ValidatorChunkSize, total_records,
                                max_records, counts1, issues1)

NoCoverage ==
    [field1_coverage |-> 0, field2_coverage |-> 0, field3_coverage |-> 0,
     field4_coverage |-> 0, valid_dates_coverage |-> 0]

\* Lines 12-26: the results before anything was examined.
DefaultValidation ==
    [valid |-> TRUE, recordCount |-> 0, validRecords |-> 0, completion |-> 0,
     issues |-> <<>>, invalidRecords |-> <<>>, fieldStatistics |-> NoCoverage,
     examined |-> 0]

\* Lines 138-149: the integrity issues, present < total * 0.9 as
\* 10 * present < 9 * total and valid_dates < total * 0.95 as
\* 100 * valid_dates < 95 * total.
IntegrityIssues(counts, total_records) ==
    (IF 10 * counts.field1_present < 9 * total_records THEN <<"field1">> ELSE <<>>)
    \o (IF 10 * counts.field2_present < 9 * total_records THEN <<"field2">> ELSE <<>>)
    \o (IF 10 * counts.field3_present < 9 * total_records THEN <<"field3">> ELSE <<>>)
    \o (IF 10 * counts.field4_present < 9 * total_records THEN <<"field4">> ELSE <<>>)
    \o (IF 100 * counts.valid_dates < 95 * total_records THEN <<"timestamps">> ELSE <<>>)

\* validate_air_quality_data(csv_path, max_records): the results dictionary
\* (percentages in hundredths), and examined, the number of rows the
\* detailed pass looked at.
validate_air_quality_data(f, max_records_arg) ==
    IF f.kind = "missing"
    THEN [DefaultValidation EXCEPT !.valid = FALSE, !.issues = <<"File not found">>]
    ELSE
    LET max_records == ParseMaxRecords(max_records_arg)
        total_records == CountLines(Len(f.rows), max_records, 1, 0)
        v == ValidateChunks(f, 1, total_records, max_records, NoCounts, <<>>)
    IN  IF v.raised
        THEN [DefaultValidation EXCEPT
                 !.valid = FALSE,
                 !.issues = Append(v.issues, "Error validating data")]
        ELSE
        LET issues == v.issues \o IntegrityIssues(v.counts, total_records)
        IN  [valid |-> issues = <<>>,
             recordCount |-> total_records,
             validRecords |-> v.counts.valid_records,
             completion |-> IF total_records > 0
                            THEN RoundPercent(v.counts.valid_records, total_records)
                            ELSE 0,
             issues |-> issues,
             invalidRecords |-> v.counts.invalid_examples,
             fieldStatistics |->
                 IF total_records > 0
                 THEN [field1_coverage |->
                           RoundPercent(v.counts.field1_present, total_records),
                       field2_coverage |->
                           RoundPercent(v.counts.field2_present, total_records),
                       field3_coverage |->
                           RoundPercent(v.counts.field3_present, total_records),
                       field4_coverage |->
                           RoundPercent(v.counts.field4_present, total_records),
                       valid_dates_coverage |->
                           RoundPercent(v.counts.valid_dates, total_records)]
                 ELSE NoCoverage,
             examined |-> v.counts.examined]

\* data_validator.py run on a file with or without a max_records argument.
ValidateAirQualityData ==
    /\ pc = "idle"
    /\ \E max_records \in MaxRecordsArgs :
          validation' = [max_records |-> max_records,
                         results |-> validate_air_quality_data(file, max_records)]
    /\ pc' = "done"
    /\ entry' = "data_validator"
    /\ UNCHANGED <<file, start_date, end_date, result, df, stats, adresult,
                   chunk, chunk_size, pos, acc, corr, stdout, exit_code, crashed,
                   slots, fetch, plots, aqi, io, clock, written, http>>

InitValidate ==
    /\ file \in ValidatorFiles
    /\ start_date = None /\ end_date = None
    /\ NothingRun

SpecValidate == InitValidate /\ [][ValidateAirQualityData]_vars

-----------------------------------------------------------------------------
(* fetch_data.py fetch_data *)

THINGSPEAK_FIELDS == <<"field1", "field2", "field3", "field4">>

\* FIELD_MAPPING of fetch_data.py: the name a field is copied under.
MappedName(field) ==
    CASE field = "field1" -> "humidity"
      [] field = "field2" -> "temperature"
      [] field = "field3" -> "pm25"
      [] field = "field4" -> "pm10"

\* The retry loop of fetch_data: at most max_retries requests, the first
\* wait retry_delay seconds.
max_retries == 3
retry_delay == 5

\* Most feeds in a response.
MaxFeeds == 3

\* retry_delay stays as it is.
BackoffFixed(delay) == delay

\* retry_delay *= 2.
Backoff(delay) == delay * 2

\* Lines 103-115: the frame built from n feeds that carry the fields in
\* present; a field the response lacks becomes a column of None, and every
\* field is copied under its mapped name.
FeedsFrame(n, present) ==
    LET fields == {THINGSPEAK_FIELDS[k] : k \in DOMAIN THINGSPEAK_FIELDS}
        cols == {"created_at"} \cup fields \cup {MappedName(f) : f \in fields}
        cell(c) ==
            IF c = "created_at" THEN 24
            ELSE IF c \in fields THEN (IF c \in present THEN 1 ELSE None)
            ELSE LET f == CHOOSE g \in fields : MappedName(g) = c
                 IN  IF f \in present THEN 1 ELSE None
    IN  [cols |-> cols, rows |-> [i \in 1..n |-> [c \in cols |-> cell(c)]]]

\* What one requests.get with raise_for_status and response.json can do: a
\* RequestException (connection error, timeout, HTTP error status), a body
\* without feeds, a body with feeds, or a body that makes the code after the
\* request raise something else (a number instead of an object).
Responses ==
    {[kind |-> k, n |-> 0, present |-> {}] :
        k \in {"request_exception", "no_feeds", "other_exception"}}
    \cup {[kind |-> "feeds", n |-> n, present |-> p] :
            n \in 1..MaxFeeds,
            p \in SUBSET {THINGSPEAK_FIELDS[k] : k \in DOMAIN THINGSPEAK_FIELDS}}

\* fetch_data is called: lines 87-90.
FetchDataCall ==
    /\ pc = "idle"
    /\ pc' = "fetching"
    /\ entry' = "fetch_data"
    /\ http' = [at |-> "while", attempt |-> 0, retry_delay |-> retry_delay,
                requests |-> 0, sleeps |-> <<>>, last |-> "", value |-> Absent]
    /\ UNCHANGED <<file, start_date, end_date, result, df, stats, adresult,
                   chunk, chunk_size, pos, acc, corr, stdout, exit_code, crashed,
                   slots, fetch, plots, aqi, io, clock, written, validation>>

\* One turn of the while loop up to the return or the sleep: lines 92-128.
FetchRequest ==
    /\ pc = "fetching"
    /\ http.at = "while"
    /\ http.attempt < max_retries
    /\ \E response \in Responses :
       \E h \in {[http EXCEPT !.requests = @ + 1, !.last = response.kind]} :
          CASE response.kind = "no_feeds" ->
                   /\ http' = [h EXCEPT !.at = "returned"]
                   /\ pc' = "done"
            [] response.kind = "feeds" ->
                   /\ http' = [h EXCEPT !.at = "returned",
                                        !.value = FeedsFrame(response.n,
                                                             response.present)]
                   /\ pc' = "done"
            [] response.kind = "other_exception" ->
                   /\ http' = [h EXCEPT !.at = "raised"]
                   /\ pc' = "done"
            [] OTHER ->
                   IF h.attempt + 1 < max_retries
                   THEN /\ http' = [h EXCEPT !.attempt = @ + 1, !.at = "sleep"]
                        /\ pc' = pc
                   ELSE /\ http' = [h EXCEPT !.attempt = @ + 1, !.at = "returned"]
                        /\ pc' = "done"
    /\ UNCHANGED <<file, start_date, end_date, entry, result, df, stats, adresult,
                   chunk, chunk_size, pos, acc, corr, stdout, exit_code, crashed,
                   slots, fetch, plots, aqi, io, clock, written, validation>>

\* time.sleep(retry_delay) and the backoff: lines 123-125.
FetchSleep ==
    /\ pc = "fetching"
    /\ http.at = "sleep"
    /\ http' = [http EXCEPT !.sleeps = Append(@, http.retry_delay),
                            !.retry_delay = Backoff(@),
                            !.at = "while"]
    /\ UNCHANGED <<file, start_date, end_date, pc, entry, result, df, stats,
                   adresult, chunk, chunk_size, pos, acc, corr, stdout, exit_code,
                   crashed, slots, fetch, plots, aqi, io, clock, written,
                   validation>>

InitFetch == Init /\ file = CsvFile("missing", BaseCols, <<>>)

NextFetch == FetchDataCall \/ FetchRequest \/ FetchSleep

\* A request ends (timeout = 30) and a sleep ends, so the function keeps
\* taking steps until it returns.
SpecFetch == InitFetch /\ [][NextFetch]_vars /\ WF_vars(NextFetch)

-----------------------------------------------------------------------------
(* What the properties below speak about *)

Finished(e) == pc = "done" /\ entry = e

\* The result without its error field.
NumericFields(r) == [r EXCEPT !.error = NoError]

\* A raw row lies inside the supplied bounds: each bound that is supplied is
\* met by a time stamp that parses.
InRange(r, sd, ed) ==
    /\ sd # None => (r["created_at"] >= 0 /\ r["created_at"] >= sd)
    /\ ed # None => (r["created_at"] >= 0 /\ r["created_at"] <= ed)

\* The sum of f[i] over the indices i in S.
RECURSIVE SumOver(_, _)
SumOver(S, f) ==
    IF S = {} THEN 0
    ELSE LET x == CHOOSE y \in S : TRUE
         IN  f[x] + SumOver(S \ {x}, f)

\* The indices of the rows of the file that lie in the range and hold a
\* number in every column of cs.
RowsWith(cs) ==
    {i \in DOMAIN file.rows :
        /\ InRange(file.rows[i], start_date, end_date)
        /\ \A c \in cs : file.rows[i][c] >= 0}

\* Mean, least and greatest value of column c over the rows I of the file.
MeanOver(I, c) == Rat(SumOver(I, [i \in I |-> file.rows[i][c]]), Cardinality(I))
MinOver(I, c) == CHOOSE v \in {file.rows[i][c] : i \in I} : \A j \in I : file.rows[j][c] >= v
MaxOver(I, c) == CHOOSE v \in {file.rows[i][c] : i \in I} : \A j \in I : file.rows[j][c] <= v

-----------------------------------------------------------------------------
(* C1 *)

\* C1 (as claimed): whenever the result of analyze_air_quality_data carries
\* an error, record_count and every average_/max_/min_ field hold their zero
\* defaults and the date range is null.
C1_ErrorResultIsDefault ==
    (Finished("analysis") /\ result.error # NoError)
        => (NumericFields(result) = DefaultResult /\ ~crashed)

-----------------------------------------------------------------------------
(* C2 *)

\* The columns a variant's working rows were read from agree with one row of
\* the file: used to find the raw row a working row stems from.
StemsFrom(r, raw) ==
    \A c \in LegacyCols \cap file.cols : r[c] = raw[c]

\* C2 (as claimed): in analysis.py, analyze.py and correlation_large.py, a
\* field whose semantic and legacy columns are both present takes its values
\* from the semantic column.
C2_SemanticPreferred ==
    /\ (Finished("analysis") /\ result.error = NoError) =>
          \A m \in {"pm25", "pm10"} :
             ({m, LegacyOf(m)} \subseteq file.cols /\ RowsWith({m}) # {})
                => /\ result["average_" \o m] = MeanOver(RowsWith({m}), m)
                   /\ result["max_" \o m] = MaxOver(RowsWith({m}), m)
    /\ (Finished("analyze") /\ adresult.error = NoError) =>
          \A i \in DOMAIN df : \A m \in Metrics :
             {m, LegacyOf(m)} \subseteq file.cols
                => \E j \in DOMAIN file.rows :
                      /\ StemsFrom(df[i], file.rows[j])
                      /\ df[i][m] = ToNumericCoerce(file.rows[j][m])
    /\ (entry = "correlation_large" /\ ~crashed /\ acc.count > 0) =>
          \A i \in DOMAIN chunk : \A m \in Metrics :
             {m, LegacyOf(m)} \subseteq file.cols
                => \E j \in DOMAIN file.rows :
                      /\ StemsFrom(chunk[i], file.rows[j])
                      /\ chunk[i][m] = ToNumericCoerce(file.rows[j][m])

-----------------------------------------------------------------------------
(* C3 *)

MissingColumnsError == "Could not find PM2.5 or PM10 columns in the data"

Unavailable(m) == m \notin file.cols /\ LegacyOf(m) \notin file.cols

\* C3 (as claimed): analyze_air_quality_data reports the missing-columns
\* error only when pm25 and pm10 are both unavailable; when one of the two
\* resolves, the dataset is analyzed without that error.
C3_ErrorOnlyWhenBothMissing ==
    (Finished("analysis") /\ result.error = MissingColumnsError)
        => (Unavailable("pm25") /\ Unavailable("pm10"))

-----------------------------------------------------------------------------
(* C4 *)

\* The path does not exist, the CSV has no rows, or no row of it lies in the
\* requested range.
EmptyWorkingSet ==
    \/ file.kind = "missing"
    \/ /\ file.kind = "ok"
       /\ \A i \in DOMAIN file.rows : ~InRange(file.rows[i], start_date, end_date)

\* C4: for a nonexistent path, a CSV with zero rows or a date range that
\* leaves zero rows, analyze_air_quality_data and analyze_data return with an
\* error set, the count at 0 and no statistics computed.
C4_EmptyWorkingSetReported ==
    EmptyWorkingSet =>
        /\ Finished("analysis") =>
              /\ result.error # NoError
              /\ result.record_count = 0
              /\ NumericFields(result) = DefaultResult
        /\ Finished("analyze") =>
              /\ adresult.error # NoError
              /\ adresult.statistics = Absent
              /\ stats = NoStats
              /\ ~adresult.success

\* A file with rows, all of them before the requested start, was analyzed.
C4_Witness ==
    /\ Finished("analysis")
    /\ start_date # None
    /\ Len(file.rows) > 0
    /\ EmptyWorkingSet
    /\ result.error = "No data found for the specified date range"

-----------------------------------------------------------------------------
(* C5 *)

\* Every row of rows that has a parsed time stamp lies in the range.
AllInRange(rows) ==
    \A i \in DOMAIN rows :
        rows[i]["created_at"] >= 0 => InRange(rows[i], start_date, end_date)

ErrorImages == {"/images/error.png", "/images/error_timestamp.png"}

\* C5 (as claimed): in analysis.py, analyze.py, visualization.py and the
\* streaming aggregator, every row that contributes to a result is at or
\* after the start when a start is supplied and at or before the end when an
\* end is supplied, each bound taking effect without the other.
C5_ContributingRowsInRange ==
    /\ (Finished("analysis") /\ result.error = NoError) => AllInRange(df)
    /\ (Finished("analyze") /\ adresult.statistics # Absent) => AllInRange(df)
    /\ (Finished("visualization") /\ stdout[1] \notin ErrorImages) => AllInRange(df)
    /\ (entry = "correlation_large" /\ ~crashed /\ acc.count > 0) => AllInRange(chunk)

-----------------------------------------------------------------------------
(* C6 *)

\* The column each variant reads metric m from.
AnalysisColumn(m) == IF m \in file.cols THEN m ELSE LegacyOf(m)
AnalyzeColumn(m) == IF LegacyOf(m) \in file.cols THEN LegacyOf(m) ELSE m

\* The rows of the file with a parsed time stamp, in the range, holding a
\* number in every column of cs.
TimedRowsWith(cs) ==
    {i \in RowsWith(cs) : file.rows[i]["created_at"] >= 0}

\* The rows analyze.py keeps: time stamp parsed, in range, pm25 and pm10 present.
PollutantRows ==
    TimedRowsWith({AnalyzeColumn("pm25"), AnalyzeColumn("pm10")} \cap file.cols)

\* The statistics of analysis.py are those of the non-missing values of each
\* metric's column among the rows in the range.
AnalysisStatsOverPresent ==
    (Finished("analysis") /\ result.error = NoError) =>
        \A m \in Metrics :
           LET c == AnalysisColumn(m)
               I == IF c \in file.cols THEN RowsWith({c}) ELSE {}
           IN  I # {} =>
                 /\ result["average_" \o m] = MeanOver(I, c)
                 /\ m \in {"pm25", "pm10"} =>
                       /\ result["max_" \o m] = MaxOver(I, c)
                       /\ result["min_" \o m] = MinOver(I, c)

\* The statistics analyze.py reports for m are those of column c over rows I.
AnalyzeStatsAre(m, c, I) ==
    IF I = {} THEN adresult.statistics[m] = Absent
    ELSE /\ adresult.statistics[m] # Absent
         /\ adresult.statistics[m].mean = MeanOver(I, c)
         /\ adresult.statistics[m].min = MinOver(I, c)
         /\ adresult.statistics[m].max = MaxOver(I, c)

\* C6 (as claimed): for each available metric m the statistics are computed
\* over exactly the non-missing values of m among the rows in the date range,
\* whether or not other metrics are missing in those rows.
C6_StatsOverPresentValues ==
    /\ AnalysisStatsOverPresent
    /\ (Finished("analyze") /\ adresult.statistics # Absent) =>
          \A m \in Metrics :
             LET c == AnalyzeColumn(m)
             IN  c \in file.cols => AnalyzeStatsAre(m, c, TimedRowsWith({c}))

\* C6 (amended): analysis.py computes each metric's statistics over exactly
\* the non-missing values of its column among the rows in the date range;
\* analyze.py computes them over the non-missing values of the metric among
\* the rows that have a parsed time stamp, lie in the range and hold both
\* pm25 and pm10, and counts exactly those rows.  No missing value is
\* zero-filled or counted.
C6_StatsOverKeptRows ==
    /\ AnalysisStatsOverPresent
    /\ (Finished("analyze") /\ adresult.statistics # Absent) =>
          /\ adresult.statistics.count = Cardinality(PollutantRows)
          /\ \A m \in Metrics :
                LET c == AnalyzeColumn(m)
                IN  c \in file.cols =>
                       AnalyzeStatsAre(m, c, {i \in PollutantRows : file.rows[i][c] >= 0})

\* analyze.py reported statistics for a file in which a row holds pm25 but
\* no pm10, and temperature is missing in a row it kept.
C6_Witness ==
    /\ Finished("analyze")
    /\ adresult.statistics # Absent
    /\ file.cols = BaseCols
    /\ \E i \in DOMAIN file.rows :
          file.rows[i]["pm25"] >= 0 /\ file.rows[i]["pm10"] = NaN
    /\ \E i \in PollutantRows : file.rows[i]["temperature"] = NaN

-----------------------------------------------------------------------------
(* C7 *)

\* The coefficients calculate_correlations gives for the same file and dates.
WholeFileCorrelations ==
    analyze_air_quality_data(file, start_date, end_date, TRUE).result.correlations

\* The streaming run ended with its two coefficients computed, on a file
\* with the four semantic columns and with both dates or none.
StreamComputed ==
    /\ Finished("correlation_large")
    /\ ~crashed
    /\ acc.count > 0
    /\ file.cols = BaseCols
    /\ (start_date = None) = (end_date = None)

\* C7 (as claimed): for the same file and date range the pm25-temperature
\* and pm25-humidity coefficients of the streaming aggregator equal, to three
\* decimal places, those of calculate_correlations, also when pm10 or the
\* other environmental metric is missing in some rows.
C7_StreamingEqualsWholeFile ==
    (StreamComputed /\ WholeFileCorrelations # Absent) =>
        /\ ~WholeFileCorrelations.pm25_temp.nan =>
              Round3(corr.pm25_temp_corr) = WholeFileCorrelations.pm25_temp
        /\ ~WholeFileCorrelations.pm25_humidity.nan =>
              Round3(corr.pm25_hum_corr) = WholeFileCorrelations.pm25_humidity

-----------------------------------------------------------------------------
(* C8 *)

\* The rows of rows that hold a number in both columns.
CompleteRows(rows, x, y) == {i \in DOMAIN rows : rows[i][x] >= 0 /\ rows[i][y] >= 0}

\* Over the rows complete in x and y, one of the two columns is constant.
ZeroVariance(rows, x, y) ==
    /\ CompleteRows(rows, x, y) # {}
    /\ \E c \in {x, y} :
          \A i, j \in CompleteRows(rows, x, y) : rows[i][c] = rows[j][c]

RoundedZero == [nan |-> FALSE, milli |-> 0]

\* C8 (as claimed): when one series of a correlated pair has zero variance
\* the coefficient is 0, never NaN, in the streaming calculate_correlation
\* and in the non-streaming calculate_correlations.
C8_ZeroVarianceGivesZero ==
    /\ (StreamComputed /\ ZeroVariance(file.rows, "pm25", "temperature")
                       /\ \A i \in DOMAIN file.rows : \A m \in Metrics : file.rows[i][m] >= 0)
          => corr.pm25_temp_corr = CoefZero
    /\ (Finished("analysis") /\ file.cols = BaseCols /\ result.correlations # Absent) =>
          /\ ZeroVariance(df, "pm25", "temperature") =>
                result.correlations.pm25_temp = RoundedZero
          /\ ZeroVariance(df, "pm25", "humidity") =>
                result.correlations.pm25_humidity = RoundedZero
          /\ ZeroVariance(df, "pm25", "pm10") =>
                result.correlations.pm25_pm10 = RoundedZero

-----------------------------------------------------------------------------
(* C9 *)

\* The parsed time stamps of the file.
ParsedTimes == {file.rows[i]["created_at"] : i \in DOMAIN file.rows} \cap Nat

\* The streaming run ended in an exception while a chunk held a created_at
\* that does not parse.
StreamAbortedOnTimestamp ==
    /\ entry = "correlation_large"
    /\ crashed
    /\ "created_at" \in file.cols
    /\ \E i \in DOMAIN chunk : chunk[i]["created_at"] = Bad

\* C9 (as claimed): a row whose created_at cannot be parsed is treated as
\* missing in analysis.py, analyze.py and the streaming aggregator: it never
\* aborts the run and takes no part in the date filter or the date range.
C9_UnparsableTimestampIsMissing ==
    /\ (Finished("analysis") /\ result.error = NoError) =>
          /\ result.date_range.start \in ParsedTimes
          /\ result.date_range.end \in ParsedTimes
          /\ (start_date # None \/ end_date # None) =>
                \A i \in DOMAIN df : df[i]["created_at"] \in ParsedTimes
    /\ (Finished("analyze") /\ adresult.statistics # Absent) =>
          \A i \in DOMAIN df : df[i]["created_at"] \in ParsedTimes
    /\ ~StreamAbortedOnTimestamp

-----------------------------------------------------------------------------
(* C10 *)

\* C10 (as claimed): analyze.py main, visualization.py main and the __main__
\* block of correlation_large, once finished, have printed a path line and a
\* message line, the path being an error image on failure, and have not
\* ended in an uncaught exception.
C10_TwoLinesOnEveryFailure ==
    (pc = "done" /\ entry \in {"analyze", "visualization", "correlation_large"}) =>
        /\ ~crashed
        /\ Len(stdout) >= 2
        /\ (entry = "analyze" /\ ~adresult.success) => stdout[1] \in ErrorImages

-----------------------------------------------------------------------------
(* C11 *)

\* The run printed the path of a chart, not of an error image.
ChartProduced == Len(stdout) >= 2 /\ stdout[1] \notin ErrorImages

\* C11 (as claimed): analyze.py, visualization.py and run_analysis.py end
\* with exit status 0 exactly when the visualization was produced, and with
\* status 1 on every failure.
C11_ExitCodeReflectsSuccess ==
    (pc = "done" /\ entry \in {"analyze", "visualization", "run_analysis"}) =>
        /\ exit_code \in {0, 1}
        /\ (exit_code = 0) = ChartProduced

-----------------------------------------------------------------------------
(* C12 *)

\* The (weekday, hour) cells in which a row of the charted frame falls.
Cells == {<<DayOfWeek(df[i]["created_at"]), HourOf(df[i]["created_at"])>> : i \in DOMAIN df}

\* The pm25 mean of a cell.
CellMean(c) ==
    LET I == {i \in DOMAIN df :
                 /\ DayOfWeek(df[i]["created_at"]) = c[1]
                 /\ HourOf(df[i]["created_at"]) = c[2]}
    IN  Rat(SumOver(I, [i \in I |-> df[i]["pm25"]]), Cardinality(I))

\* The first cell, in (day, hour) order, of a set of cells.
FirstCell(S) ==
    CHOOSE c \in S : \A e \in S : c[1] < e[1] \/ (c[1] = e[1] /\ c[2] <= e[2])

WorstCell == FirstCell({c \in Cells : \A e \in Cells : RatLeq(CellMean(e), CellMean(c))})
BestCell == FirstCell({c \in Cells : \A e \in Cells : RatLeq(CellMean(c), CellMean(e))})

\* C12 (as claimed): the slots create_heatmap names as worst and best are the
\* weekday and the hour of the first cell, in (day, hour) order, whose pm25
\* mean is the greatest, respectively the least, of the grid, also when some
\* hours have no rows.  Stated for the frames with a row on every weekday,
\* for which the seven tick labels fit and the chart is drawn by every
\* matplotlib.
C12_HeatmapNamesExtremeCells ==
    (Finished("analyze") /\ slots # NoSlots
                         /\ {c[1] : c \in Cells} = 0..(DaysPerWeek - 1)) =>
        /\ slots.worst_day = day_names[WorstCell[1] + 1]
        /\ slots.worst_hour = WorstCell[2]
        /\ slots.best_day = day_names[BestCell[1] + 1]
        /\ slots.best_hour = BestCell[2]


\* ---- C13 ----

\* The entries of the table of aqi.pollutant whose max is at least aqi.value.
Reaching ==
    {k \in 1..Len(AQI_LEVELS(aqi.pollutant)) :
        aqi.value[1] <= AQI_LEVELS(aqi.pollutant)[k].max}
Classified ==
    /\ pc = "done" /\ entry = "get_air_quality_level"
    /\ aqi.value # NaNValue

\* C13: for a numeric value and a pollutant, get_air_quality_level returns
\* the level of the first entry of the table whose max is at least the value
\* (a value equal to a max falls in that entry, the lower bucket), and
\* 'Extremely Hazardous' exactly when the value exceeds the last max.
C13_FirstLevelReachingValue ==
    Classified =>
        /\ Reaching # {} =>
              \E k \in Reaching :
                 /\ \A j \in Reaching : k <= j
                 /\ aqi.info.level = AQI_LEVELS(aqi.pollutant)[k].level
        /\ (aqi.info.level = "Extremely Hazardous") = (Reaching = {})
C13_Witness ==
    /\ Classified
    /\ aqi.pollutant = "pm25" /\ aqi.value = <<354, 10>>
    /\ aqi.info.level = "Moderate"
C13_WitnessAbove ==
    /\ Classified
    /\ aqi.pollutant = "pm10" /\ aqi.value = <<6041, 10>>
    /\ aqi.info.level = "Extremely Hazardous"

\* ---- C14 ----

\* The file uses only legacy codes for its metrics.
LegacyOnly ==
    /\ file.kind = "ok"
    /\ file.cols \cap Metrics = {}
    /\ file.cols \cap LegacyCols # {}
\* The same rows with each legacy column renamed to its semantic name.
Relabelled ==
    LET renamed == {c \in {"created_at"} \cup Metrics :
                       IF c \in Metrics THEN LegacyOf(c) \in file.cols
                       ELSE c \in file.cols}
    IN  CsvFile(file.kind, renamed,
                [i \in DOMAIN file.rows |->
                    [c \in renamed |->
                        file.rows[i][IF c \in Metrics THEN LegacyOf(c) ELSE c]]])
\* The statistics analyze.py computes for the relabelled file.
RelabelledStatistics ==
    LET d == load_data(Relabelled, start_date, end_date)
    IN  IF ~d.ok \/ Len(d.rows) = 0 THEN NoStats
        ELSE calculate_statistics(FALSE, d.rows)

\* C14: a file whose metric columns use only the legacy codes field1..field4
\* yields the same statistics (means, min, max, counts), in analysis.py and
\* in analyze.py, as the same rows with the columns renamed humidity,
\* temperature, pm25 and pm10.
C14_LegacyEqualsRelabelled ==
    /\ (Finished("analysis") /\ LegacyOnly) =>
          \E extended \in BOOLEAN :
             result = analyze_air_quality_data(Relabelled, start_date, end_date,
                                               extended).result
    /\ (Finished("analyze") /\ LegacyOnly) => stats = RelabelledStatistics
C14_Witness ==
    /\ Finished("analysis") /\ LegacyOnly
    /\ file.cols = {"created_at"} \cup LegacyCols
    /\ result.error = NoError
    /\ result.record_count = 2
    /\ result.average_pm25 = <<7, 2>> /\ result.max_pm25 = 4 /\ result.min_pm25 = 3

\* ---- C15 ----

\* Every chunk of the file has been processed and none raised.
AllChunksProcessed ==
    /\ entry = "correlation_large"
    /\ pc = "chunks"
    /\ pos >= Len(file.rows)
\* The pass over all rows of the file as one chunk.
AsOneChunk == process_chunk(ZeroAcc, file.cols, file.rows, start_date, end_date)

\* C15: for any chunk size >= 1, the accumulators (the product sums, the
\* sums, the squared sums and count) after the last chunk, and hence the
\* coefficients, are those obtained by processing all rows as one chunk.
C15_ChunkBoundaryInvariance ==
    AllChunksProcessed =>
        /\ ~AsOneChunk.raised
        /\ acc = AsOneChunk.acc
        /\ StreamCoefficients(acc) = StreamCoefficients(AsOneChunk.acc)

\* ---- C16 ----

\* The raw rows of the chunk that the step from pos to pos' processes.
ChunkRead == SubSeq(file.rows, pos + 1, pos')
\* Every row of the chunk has a time stamp that parses and lies outside the
\* date range.
NoRowInRange ==
    \A i \in DOMAIN ChunkRead :
        /\ ChunkRead[i]["created_at"] >= 0
        /\ ~InRange(ChunkRead[i], start_date, end_date)
\* No row of the chunk holds a number for each of the four metrics.
NoCompleteRow ==
    \A i \in DOMAIN ChunkRead : \E m \in Metrics : ChunkRead[i][m] < 0

\* C16: in the streaming aggregator, processing a chunk that has no row
\* inside the date range, or no row with pm25, pm10, temperature and humidity
\* all present, leaves every accumulator (product sums, sums, squared sums,
\* count) unchanged.
C16_SkippedChunkKeepsAccumulators ==
    [][(/\ pc = "chunks" /\ pos' > pos
        /\ file.cols = BaseCols
        /\ NoRowInRange \/ NoCompleteRow) => acc' = acc]_vars

\* ---- C17 ----

\* The step that follows the last chunk of a run that counted no row.
FinishWithoutData ==
    /\ pc = "chunks" /\ pc' = "done"
    /\ pos >= Len(file.rows)
    /\ acc.count = 0

\* C17: if the total valid count over all chunks is 0,
\* create_correlation_large returns the placeholder image path together with
\* the text 'No data available for the selected period.', without raising
\* and without computing a coefficient.
C17_NoDataGivesPlaceholder ==
    [][FinishWithoutData =>
          /\ ~crashed'
          /\ stdout' = <<"/images/correlation_timestamp.png",
                         "No data available for the selected period.">>
          /\ corr' = corr]_vars
\* The same, for the runs whose image write succeeds.
C17_PlaceholderWhenWritten ==
    [][(FinishWithoutData /\ ~crashed') =>
          /\ stdout' = <<"/images/correlation_timestamp.png",
                         "No data available for the selected period.">>
          /\ corr' = corr]_vars

\* ---- C18 ----

\* The extended analysis of a file with the four semantic columns has
\* stored its correlations.
CorrelationsStored ==
    /\ Finished("analysis")
    /\ file.cols = BaseCols
    /\ "correlations" \in result.extras
\* Pearson's coefficient of columns x and y of the working set over the rows
\* in which both hold a number, rounded to three places.
PairwiseCoefficient(x, y) ==
    LET I == CompleteRows(df, x, y)
        n == Cardinality(I)
        sx == SumOver(I, [i \in I |-> df[i][x]])
        sy == SumOver(I, [i \in I |-> df[i][y]])
        sxy == SumOver(I, [i \in I |-> df[i][x] * df[i][y]])
        sxx == SumOver(I, [i \in I |-> df[i][x] * df[i][x]])
        syy == SumOver(I, [i \in I |-> df[i][y] * df[i][y]])
        den == (n * sxx - sx * sx) * (n * syy - sy * sy)
    IN  IF den = 0 THEN [nan |-> TRUE, milli |-> 0]
        ELSE Round3(Coef(n * sxy - sx * sy, den))

\* C18: calculate_correlations computes each of the five pairs
\* (pm25-temperature, pm25-humidity, pm10-temperature, pm10-humidity,
\* pm25-pm10) over exactly the rows in which both members of the pair are
\* present, whether or not the other two metrics are missing in those rows.
C18_PairwiseCompleteRows ==
    CorrelationsStored =>
        /\ result.correlations.pm25_temp = PairwiseCoefficient("pm25", "temperature")
        /\ result.correlations.pm25_humidity = PairwiseCoefficient("pm25", "humidity")
        /\ result.correlations.pm10_temp = PairwiseCoefficient("pm10", "temperature")
        /\ result.correlations.pm10_humidity = PairwiseCoefficient("pm10", "humidity")
        /\ result.correlations.pm25_pm10 = PairwiseCoefficient("pm25", "pm10")
\* pm25 and temperature rise together over two rows, one of them without pm10.
C18_Witness ==
    /\ CorrelationsStored
    /\ \E i \in DOMAIN df : df[i]["pm10"] = NaN /\ df[i]["pm25"] >= 0
                            /\ df[i]["temperature"] >= 0
    /\ result.correlations.pm25_temp = [nan |-> FALSE, milli |-> 1000]

\* ---- C19 ----

\* Temperature and/or humidity has neither its semantic nor its legacy
\* column, while pm25 and pm10 resolve.
EnvironmentMissing ==
    /\ file.kind = "ok" /\ "created_at" \in file.cols
    /\ Unavailable("temperature") \/ Unavailable("humidity")
    /\ ~Unavailable("pm25") /\ ~Unavailable("pm10")
\* The same rows with the unavailable columns present, holding 1.
WithEnvironment ==
    LET added == {m \in {"temperature", "humidity"} : Unavailable(m)}
    IN  CsvFile(file.kind, file.cols \cup added,
                [i \in DOMAIN file.rows |->
                    [c \in file.cols \cup added |->
                        IF c \in added THEN 1 ELSE file.rows[i][c]]])
\* The fields of the analysis.py result that describe pm25, pm10 and the
\* number of records.
PollutantFields(r) ==
    <<r.average_pm25, r.max_pm25, r.min_pm25,
      r.average_pm10, r.max_pm10, r.min_pm10, r.record_count>>
\* The statistics analyze.py computes for the file with the columns present.
StatisticsWithEnvironment ==
    calculate_statistics(FALSE, load_data(WithEnvironment, start_date, end_date).rows)

\* C19: when temperature and/or humidity is unavailable but pm25 and pm10
\* resolve, the analysis returns without an error, the statistics of the
\* unavailable metric are omitted or left at their default, and the pm25 and
\* pm10 statistics and the record count equal those for the same rows with
\* the columns present, also with extended = True.
C19_EnvironmentOptional ==
    /\ (Finished("analysis") /\ EnvironmentMissing) =>
          /\ result.error = NoError
          /\ Unavailable("temperature") => result.average_temperature = Zero
          /\ Unavailable("humidity") => result.average_humidity = Zero
          /\ \A extended \in BOOLEAN :
                PollutantFields(result) =
                    PollutantFields(analyze_air_quality_data(
                        WithEnvironment, start_date, end_date, extended).result)
    /\ (Finished("analyze") /\ EnvironmentMissing /\ stats # NoStats) =>
          /\ stats.error = NoError
          /\ Unavailable("temperature") => stats.temperature = Absent
          /\ Unavailable("humidity") => stats.humidity = Absent
          /\ stats.count = StatisticsWithEnvironment.count
          /\ stats.pm25 = StatisticsWithEnvironment.pm25
          /\ stats.pm10 = StatisticsWithEnvironment.pm10
\* An extended run on two rows without temperature and humidity.
C19_Witness ==
    /\ Finished("analysis") /\ EnvironmentMissing
    /\ Unavailable("temperature") /\ Unavailable("humidity")
    /\ "hourly_patterns" \in result.extras
    /\ result.record_count = 2
    /\ result.average_pm25 = <<3, 2>>
    /\ result.error = NoError

\* ---- C20 ----

\* The analysis reached its plots and some of them were not written.
RenderFailed ==
    /\ Finished("analysis")
    /\ result.date_range.start # None
    /\ \/ ~(BasicImages \subseteq plots)
       \/ "data_quality" \in result.extras /\ ~(ExtendedImages \subseteq plots)

\* C20: a failure while rendering a chart inside analyze_air_quality_data
\* (basic plots or extended plots) does not abort the analysis: the result
\* holds every statistical field (averages, min/max, record_count,
\* date_range and the extended blocks) as the run without the failure
\* computes it, and no error.
C20_RenderFailureKeepsResult ==
    RenderFailed =>
        /\ result.error = NoError
        /\ \E extended \in BOOLEAN :
              result = analyze_air_quality_data(file, start_date, end_date,
                                                extended).result
\* Both the basic and the extended plots failed in a complete extended run.
C20_Witness ==
    /\ RenderFailed
    /\ plots = {}
    /\ "analysis_version" \in result.extras
    /\ result.record_count = 2
    /\ result.average_pm25 = <<3, 2>>

\* ---- C21 ----

\* The date filter of analysis.py (lines 65-73) and of load_data (lines
\* 92-101) applied to rows once more with the bounds of the run.
FilteredAgain(rows) ==
    LET from == IF start_date # None THEN FilterFrom(rows, start_date) ELSE rows
    IN  IF end_date # None THEN FilterTo(from, end_date) ELSE from
\* A run of analysis.py or analyze.py that filtered its file has ended.
FilteredRun ==
    /\ Finished("analysis") \/ Finished("analyze")
    /\ file.kind = "ok" /\ "created_at" \in file.cols

\* C21: date filtering is idempotent: applying the same [start, end] bounds
\* to the already filtered working set removes no further row and leaves the
\* order of the remaining rows unchanged; every row of the working set lies
\* inside the bounds.
C21_FilterIdempotent ==
    FilteredRun =>
        /\ FilteredAgain(df) = df
        /\ \A i \in DOMAIN df : InRange(df[i], start_date, end_date)
\* Both bounds given, one row of two removed by the filter.
C21_Witness ==
    /\ FilteredRun
    /\ start_date # None /\ end_date # None
    /\ Len(file.rows) = 2 /\ Len(df) = 1
    /\ FilteredAgain(df) = df

\* ---- C22 ----

\* The extended analysis has stored its hourly patterns.
HourlyStored == Finished("analysis") /\ "hourly_patterns" \in result.extras
\* The rows of the working set with a parsed time stamp in hour h.
RowsOfHour(h) ==
    {i \in DOMAIN df : df[i]["created_at"] >= 0 /\ HourOf(df[i]["created_at"]) = h}
\* The mean of the non-missing values of metric m over the rows of hour h.
HourMean(h, m) ==
    LET I == {i \in RowsOfHour(h) : df[i][AnalysisColumn(m)] >= 0}
    IN  IF I = {} THEN CellNaN
        ELSE Rat(SumOver(I, [i \in I |-> df[i][AnalysisColumn(m)]]), Cardinality(I))

\* C22: calculate_hourly_patterns returns three lists of equal length;
\* 'hours' is strictly ascending, holds integers in 0..23 and holds exactly
\* the hours in which a row with a parsed time stamp falls (hours without
\* rows are omitted); entry i of 'pm25' and 'pm10' is the mean of the
\* non-missing values of the rows of hour i.
C22_HourlyPatterns ==
    HourlyStored =>
        LET hp == result.hourly_patterns
        IN  /\ Len(hp.pm25) = Len(hp.hours) /\ Len(hp.pm10) = Len(hp.hours)
            /\ \A k \in DOMAIN hp.hours : hp.hours[k] \in 0..(HoursPerDay - 1)
            /\ \A k \in DOMAIN hp.hours :
                  \A l \in DOMAIN hp.hours : k < l => hp.hours[k] < hp.hours[l]
            /\ {hp.hours[k] : k \in DOMAIN hp.hours}
                   = {h \in 0..(HoursPerDay - 1) : RowsOfHour(h) # {}}
            /\ \A k \in DOMAIN hp.hours :
                  /\ hp.pm25[k] = HourMean(hp.hours[k], "pm25")
                  /\ hp.pm10[k] = HourMean(hp.hours[k], "pm10")
\* Two rows in different hours, pm25 1 in hour 0 and 2 in hour 23.
C22_Witness ==
    /\ HourlyStored
    /\ result.hourly_patterns.hours = <<0, 23>>
    /\ result.hourly_patterns.pm25 = <<<<1, 1>>, <<2, 1>>>>

\* ---- C23 ----

\* The extended analysis has stored its data quality block.
QualityStored == Finished("analysis") /\ "data_quality" \in result.extras
\* The rows of the working set that hold a value of metric m.
ValuesOf(m) == {i \in DOMAIN df : df[i][AnalysisColumn(m)] >= 0}
\* The values of metric m farther than three standard deviations (ddof = 1)
\* from their mean.
OutliersOf(m) ==
    LET I == ValuesOf(m)
        n == Cardinality(I)
        t == SumOver(I, [i \in I |-> df[i][AnalysisColumn(m)]])
        ss == SumOver(I, [i \in I |-> df[i][AnalysisColumn(m)] * df[i][AnalysisColumn(m)]])
    IN  {i \in I : (n * df[i][AnalysisColumn(m)] - t) * (n * df[i][AnalysisColumn(m)] - t)
                       * (n - 1) > 9 * n * (n * ss - t * t)}
\* Completeness per metric is non-missing count / total row count * 100.
CompletenessOverRows ==
    \A m \in Metrics :
        result.data_quality.completeness[m]
            = RoundPercent(Cardinality(ValuesOf(m)), Len(df))

\* C23: assess_data_quality reports, for pm25 and for pm10, the outlier
\* fraction as the number of that metric's values with
\* |value - mean| > 3*stddev divided by the number of that metric's values,
\* and completeness per metric as non-missing count / total row count * 100.
C23_OutliersOverValues ==
    QualityStored =>
        /\ \A m \in {"pm25", "pm10"} :
              ValuesOf(m) # {} =>
                  result.data_quality.outliers[m]
                      = RoundPercent(Cardinality(OutliersOf(m)), Cardinality(ValuesOf(m)))
        /\ CompletenessOverRows
\* The same with the outlier count divided by the number of rows.
C23_OutliersOverRows ==
    QualityStored =>
        /\ \A m \in {"pm25", "pm10"} :
              result.data_quality.outliers[m]
                  = RoundPercent(Cardinality(OutliersOf(m)), Len(df))
        /\ CompletenessOverRows

\* ---- C24 ----

\* C24: in every variant that writes an image (the analyze.py chart
\* functions, visualization.py, create_error_image, the streaming
\* aggregator), the output directory is created before the first image write
\* of the run: every write into the directory follows a creation of the
\* directory by the same run.
C24_DirectoryCreatedBeforeWrite ==
    \A k \in DOMAIN io :
        io[k] = "savefig" => \E j \in 1..(k - 1) : io[j] = "makedirs"
\* The same for the variants other than the streaming aggregator.
C24_CreatedBeforeWriteElsewhere ==
    entry # "correlation_large" => C24_DirectoryCreatedBeforeWrite

\* ---- C25 ----

\* C25: two distinct invocations, also ones that start within the same clock
\* second or run concurrently, never write their image to the same file
\* path: the image file name of each run is fresh.
C25_FreshFileNames ==
    \A i \in DOMAIN written : \A j \in DOMAIN written :
        i # j => written[i] # written[j]
\* The same for invocations of the time-stamping scripts in different
\* clock seconds.
C25_FreshAcrossSeconds ==
    \A i \in DOMAIN written : \A j \in DOMAIN written :
        (i # j /\ written[i].stamp # None /\ written[i].stamp # written[j].stamp)
            => written[i] # written[j]

\* ---- C26 ----
\* analyze_data returned a result (run_analysis.py may stop before its call).
AnalyzeDataReturned ==
    (Finished("analyze") \/ Finished("run_analysis")) /\ adresult # Absent

\* C26: in every result of analyze_data, success is true exactly when
\* visualization.path is non-null, and whenever success is false the error
\* field is non-null, for every viz_type, 'correlation' on data without
\* temperature and humidity included.
C26_FailureCarriesError ==
    AnalyzeDataReturned =>
        /\ adresult.success <=> adresult.visualization.path # NoPath
        /\ ~adresult.success => adresult.error # NoError

\* What the code does guarantee: success goes with the path, and a failure
\* without an error message is a chart function that returned no path and a
\* description instead.
C26_SuccessIffPath ==
    AnalyzeDataReturned =>
        /\ adresult.success <=> adresult.visualization.path # NoPath
        /\ (~adresult.success /\ adresult.error = NoError) =>
              /\ adresult.visualization.type = "correlation"
              /\ adresult.visualization.description # ""
              /\ adresult.statistics # Absent

\* ---- C27 ----
Validated == Finished("data_validator")

Coverages ==
    {validation.results.fieldStatistics[k] :
        k \in DOMAIN validation.results.fieldStatistics}

\* C27: validate_air_quality_data reports validRecords <= recordCount,
\* 0 <= completion <= 100 and every field coverage <= 100, and the rows it
\* examines for validity are the rows it counts in recordCount, for every
\* file and every max_records cap.
C27_ValidatorBounds ==
    Validated =>
        /\ validation.results.validRecords <= validation.results.recordCount
        /\ validation.results.completion >= 0
        /\ validation.results.completion <= 10000
        /\ \A c \in Coverages : c <= 10000
        /\ validation.results.examined = validation.results.recordCount

\* What the code does guarantee: the bounds hold when the cap does not cut
\* the file (no cap, a cap of 0, or a cap of at least the number of rows).
C27_BoundsWithoutCut ==
    (/\ Validated
     /\ \/ ~Truthy(ParseMaxRecords(validation.max_records))
        \/ validation.max_records >= Len(file.rows)) =>
        /\ validation.results.validRecords <= validation.results.recordCount
        /\ validation.results.completion >= 0
        /\ validation.results.completion <= 10000
        /\ \A c \in Coverages : c <= 10000
        /\ validation.results.examined = validation.results.recordCount

\* ---- C28 ----
FetchDataEnded == entry = "fetch_data" /\ pc = "done"

\* The waits so far are 5, 10, ...: the k-th is 5 * 2^(k-1).
WaitsDouble == \A k \in DOMAIN http.sleeps : http.sleeps[k] = 5 * 2^(k - 1)

\* The requests, failures and waits of fetch_data at every point of its run.
RetryLoopBounded ==
    entry = "fetch_data" =>
        /\ http.requests <= 3
        /\ WaitsDouble
        \* about to request again: every failure so far was followed by a wait
        /\ http.at = "while" =>
              /\ http.requests = http.attempt
              /\ Len(http.sleeps) = http.attempt
        \* waiting: after the k-th failure, k < 3
        /\ http.at = "sleep" =>
              /\ http.attempt < 3
              /\ http.requests = http.attempt
              /\ Len(http.sleeps) = http.attempt - 1
        \* a response ended the loop at once
        /\ (FetchDataEnded /\ http.last # "request_exception") =>
              /\ http.requests = http.attempt + 1
              /\ Len(http.sleeps) = http.attempt
        \* the third failure: None, and no wait after it
        /\ (FetchDataEnded /\ http.last = "request_exception") =>
              /\ http.attempt = 3
              /\ http.requests = 3
              /\ http.sleeps = <<5, 10>>
              /\ http.at = "returned"
              /\ http.value = Absent

\* C28: fetch_data makes at most 3 HTTP requests; a success ends the loop at
\* once; after the k-th failure with k < 3 it waits 5 * 2^(k-1) seconds
\* (5, then 10) and retries; after the third failure it returns None
\* without sleeping; it always terminates.
C28_RetryLoop == []RetryLoopBounded /\ <>FetchDataEnded

\* fetch_data gave up after three failures and two waits.
C28_Witness ==
    /\ FetchDataEnded
    /\ http.last = "request_exception"
    /\ http.requests = 3
    /\ http.sleeps = <<5, 10>>

\* fetch_data returned a frame on the second request, after one wait.
C28_WitnessRetrySucceeds ==
    /\ FetchDataEnded
    /\ http.last = "feeds"
    /\ http.requests = 2
    /\ http.sleeps = <<5>>
    /\ Len(http.value.rows) > 0

\* ---- C29 ----
\* The fetch decision of run_full_analysis was taken.
FetchDecided == entry = "run_analysis" /\ fetch # NoFetch

\* C29: run_full_analysis invokes the fetch exactly when force_fetch is set,
\* or the data file is missing, or the file is at least 3600 seconds old;
\* the analysis runs after the fetch decision whatever the outcome of the
\* fetch; overall_success (the exit status) is the success of the analysis
\* alone.
C29_FetchWhenStale ==
    /\ FetchDecided =>
          (fetch.needed <=>
              (fetch.force_fetch \/ ~fetch.existed \/ fetch.file_age >= 3600))
    /\ (FetchDecided /\ pc = "done") =>
          /\ adresult # Absent
          /\ (exit_code = 0) <=> adresult.success

\* A file exactly an hour old was fetched, the fetch failed, the analysis of
\* the old file succeeded and so did the run.
C29_Witness ==
    /\ FetchDecided /\ pc = "done"
    /\ ~fetch.force_fetch /\ fetch.existed /\ fetch.file_age = 3600
    /\ fetch.needed /\ ~fetch.success
    /\ adresult.success
    /\ exit_code = 0

\* ---- C30 ----
ExtendedKeys == {"hourly_patterns", "correlations", "daily_patterns", "data_quality"}

\* The result without what the extended block added.
WithoutExtended(r) ==
    [r EXCEPT !.extras = {},
              !.hourly_patterns = DefaultResult.hourly_patterns,
              !.correlations = DefaultResult.correlations,
              !.data_quality = DefaultResult.data_quality]

\* The extended block ran and one of its steps failed.
ExtendedStepFailed ==
    /\ Finished("analysis")
    /\ result.extras # {}
    /\ "analysis_version" \notin result.extras

\* C30: with extended = True, analysis_version = 2 is present exactly when
\* hourly_patterns, correlations, daily_patterns and data_quality are all
\* present; a failure in one extended step leaves the basic statistics as
\* they are without the extended analysis and adds no error.
C30_VersionMarksCompleteBlock ==
    /\ Finished("analysis") =>
          ("analysis_version" \in result.extras <=> ExtendedKeys \subseteq result.extras)
    /\ ExtendedStepFailed =>
          /\ result.error = NoError
          /\ WithoutExtended(result) =
                 analyze_air_quality_data(file, start_date, end_date, FALSE).result

\* calculate_correlations failed after the hourly patterns were added.
C30_Witness ==
    /\ ExtendedStepFailed
    /\ result.extras = {"hourly_patterns"}
    /\ result.record_count = 2
    /\ result.average_pm25 # Zero

\* The whole block ran although the extended plots failed.
C30_WitnessComplete ==
    /\ Finished("analysis")
    /\ result.extras = ExtendedKeys \cup {"analysis_version"}
    /\ plots # {} /\ ExtendedImages \cap plots = {}

====
